---- MODULE Spec2Model ----
(***************************************************************************)
(* Matchup-matrix builders and bankroll backtesting simulators of the      *)
(* dftest repository.                                                      *)
(*                                                                         *)
(* JavaScript Numbers that hold money, odds and hero-advantage deltas are  *)
(* modelled as exact rationals [n |-> numerator, d |-> denominator] in     *)
(* lowest terms; Math.floor and Math.round are computed on the rational.   *)
(***************************************************************************)
EXTENDS Integers, Sequences, FiniteSets, TLC

(***************************************************************************)
(* Bounds of the model.                                                    *)
(***************************************************************************)
\* longest corpus replayed by one simulator run
MaxMatches == 3
\* longest corpus replayed by the two-threshold comparison
MaxSweepMatches == 12

\* the longest input of a matrix build
MaxRecords == 3

\* longest corpus of losing matches replayed by one run
MaxStreak == 100

(***************************************************************************)
(* Exact rational arithmetic (the model of JavaScript Number).             *)
(***************************************************************************)
RECURSIVE Gcd(_, _)
Gcd(a, b) == IF b = 0 THEN a ELSE Gcd(b, a % b)

Abs(i) == IF i < 0 THEN 0 - i ELSE i

Q(n, d) ==
  LET g == Gcd(Abs(n), d)
  IN  [n |-> n \div g, d |-> d \div g]

QInt(i) == [n |-> i, d |-> 1]

Lcm(a, b) == (a \div Gcd(a, b)) * b

QAdd(x, y) ==
  IF x.d = 1 /\ y.d = 1 THEN [n |-> x.n + y.n, d |-> 1]
  ELSE LET l == Lcm(x.d, y.d)
       IN  Q(x.n * (l \div x.d) + y.n * (l \div y.d), l)

QSub(x, y) ==
  IF x.d = 1 /\ y.d = 1 THEN [n |-> x.n - y.n, d |-> 1]
  ELSE LET l == Lcm(x.d, y.d)
       IN  Q(x.n * (l \div x.d) - y.n * (l \div y.d), l)

QMul(x, y) ==
  IF x.d = 1 /\ y.d = 1 THEN [n |-> x.n * y.n, d |-> 1]
  ELSE LET g1 == Gcd(Abs(x.n), y.d)
           g2 == Gcd(Abs(y.n), x.d)
       IN  [n |-> (x.n \div g1) * (y.n \div g2), d |-> (x.d \div g2) * (y.d \div g1)]

QLt(x, y) ==
  IF x.d = y.d THEN x.n < y.n
  ELSE LET l == Lcm(x.d, y.d)
       IN  x.n * (l \div x.d) < y.n * (l \div y.d)

QLe(x, y) == ~QLt(y, x)

QMin(x, y) == IF QLt(y, x) THEN y ELSE x

QMax(x, y) == IF QLt(x, y) THEN y ELSE x

QIsInt(x) == x.d = 1

\* Math.floor
QFloor(x) == x.n \div x.d

\* the smallest integer not below x, in place of the nearest
QCeiling(x) == 0 - ((0 - x.n) \div x.d)

\* Math.round: the nearest integer, halves rounded up
QRound(x) == (2 * x.n + x.d) \div (2 * x.d)

Zero == QInt(0)

(***************************************************************************)
(* Program constants.                                                      *)
(***************************************************************************)
\* INITIAL_BANK / START_BANK of the simulators
INITIAL_BANK == 1000
\* MAX_BET of the sweep simulators and the default --max-bet
MAX_BET == 10000

\* the percent of the Pct5 / Bankroll5pct and Flat5pct policies: 0.05
Percent5 == Q(5, 100)

(***************************************************************************)
(* Fibonacci cache: const fibCache = [1, 1], a process-wide array grown on *)
(* demand.  JavaScript index i is element i + 1 of the sequence.           *)
(***************************************************************************)
RECURSIVE GrowFibCache(_, _)
GrowFibCache(cache, step) ==
  IF Len(cache) <= step
    THEN GrowFibCache(Append(cache, cache[Len(cache)] + cache[Len(cache) - 1]), step)
    ELSE cache

\* the cache after getFibNumber(step)
getFibNumberCache(cache, step) ==
  IF step <= 0 THEN cache ELSE GrowFibCache(cache, step)

\* a linear progression in place of the Fibonacci numbers
getFibNumberLinear(cache, step) ==
  IF step <= 0 THEN 1 ELSE step

\* the newest entry of the cache in place of the entry at step
getFibNumberNewest(cache, step) ==
  IF step <= 0 THEN 1
  ELSE LET grown == GrowFibCache(cache, step) IN grown[Len(grown)]

\* the value getFibNumber(step) returns
getFibNumber(cache, step) ==
  IF step <= 0 THEN 1 ELSE GrowFibCache(cache, step)[step + 1]

\* the value fibValue(index) returns, and the cache it leaves
fibValue(cache, index) == GrowFibCache(cache, index)[index + 1]

(***************************************************************************)
(* Values a parsed number can take: a finite rational, or NaN.             *)
(***************************************************************************)
\* NaN is the pair with denominator 0
NaN == [n |-> 0, d |-> 0]

\* Number.isFinite
IsFinite(x) == x.d # 0

\* decimal odds offered in the modelled corpora
Odds2 == QInt(2)
Odds3 == QInt(3)
Odds18 == Q(9, 5)
Odds1 == QInt(1)

ValidOddsPairs == { <<Odds2, Odds3>>, <<Odds3, Odds2>>, <<Odds18, Odds18>> }

\* per-team counts of heroes with positive / negative summed advantage
TeamCounts ==
  { [t1 |-> [pos |-> 5, neg |-> 0], t2 |-> [pos |-> 0, neg |-> 5]],
    [t1 |-> [pos |-> 4, neg |-> 1], t2 |-> [pos |-> 1, neg |-> 4]],
    [t1 |-> [pos |-> 0, neg |-> 5], t2 |-> [pos |-> 5, neg |-> 0]] }

(***************************************************************************)
(* download_recent_matches.js: the hawk strategy sweep.                    *)
(***************************************************************************)
\* the relation with favorite and underdog exchanged
classifyOddsRelationExchanged(favOdds, dogOdds) ==
  IF ~IsFinite(favOdds) \/ ~IsFinite(dogOdds) THEN "any"
  ELSE IF QLt(favOdds, dogOdds) THEN "underdog"
  ELSE IF QLt(dogOdds, favOdds) THEN "favorite"
  ELSE "any"

classifyOddsRelation(favOdds, dogOdds) ==
  IF ~IsFinite(favOdds) \/ ~IsFinite(dogOdds) THEN "any"
  ELSE IF QLt(favOdds, dogOdds) THEN "favorite"
  ELSE IF QLt(dogOdds, favOdds) THEN "underdog"
  ELSE "any"

\* One CSV line as loadMatches sees it: the number of columns, the parsed
\* delta column, the hero names of each side after splitHeroes (their count
\* and whether heroNamesToIds finds them all), the counts computeTeamCounts
\* returns, the delta_fav_team / team / winner columns, and the parsed odds.
HawkLine(blank, cols, delta, n1, n2, known1, known2, counts, fav, winner, o1, o2) ==
  [blank |-> blank, cols |-> cols, delta |-> delta, n1 |-> n1, n2 |-> n2,
   known1 |-> known1, known2 |-> known2, counts |-> counts,
   deltaFavTeam |-> fav, team1 |-> "A", team2 |-> "B", winner |-> winner,
   odds1 |-> o1, odds2 |-> o2]

GoodHawkLines ==
  { HawkLine(FALSE, 14, d, 5, 5, TRUE, TRUE, c, f, w, o[1], o[2]) :
      d \in {QInt(7), QInt(0 - 10)}, c \in TeamCounts, f \in {"A", "B"},
      w \in {"A", "B"}, o \in ValidOddsPairs }

BaseHawkLine ==
  HawkLine(FALSE, 14, QInt(10), 5, 5, TRUE, TRUE,
           [t1 |-> [pos |-> 5, neg |-> 0], t2 |-> [pos |-> 0, neg |-> 5]],
           "A", "A", Odds2, Odds3)

BadHawkLines ==
  { [BaseHawkLine EXCEPT !.blank = TRUE],
    [BaseHawkLine EXCEPT !.cols = 13],
    [BaseHawkLine EXCEPT !.delta = NaN],
    [BaseHawkLine EXCEPT !.n1 = 4],
    [BaseHawkLine EXCEPT !.n2 = 6],
    [BaseHawkLine EXCEPT !.n1 = 4, !.n2 = 6],
    [BaseHawkLine EXCEPT !.known1 = FALSE],
    [BaseHawkLine EXCEPT !.known2 = FALSE],
    [BaseHawkLine EXCEPT !.n1 = 4, !.known2 = FALSE],
    [BaseHawkLine EXCEPT !.deltaFavTeam = ""],
    [BaseHawkLine EXCEPT !.deltaFavTeam = "C"],
    [BaseHawkLine EXCEPT !.odds1 = NaN],
    [BaseHawkLine EXCEPT !.odds2 = NaN],
    [BaseHawkLine EXCEPT !.odds1 = Odds1],
    [BaseHawkLine EXCEPT !.odds2 = Odds1],
    [BaseHawkLine EXCEPT !.known1 = FALSE, !.odds2 = Odds1] }

HawkLines == GoodHawkLines \cup BadHawkLines

\* loadMatches, one line: the skip counter it increments, or "" when the
\* line is pushed onto matches.
loadMatchesSkip(line) ==
  IF line.blank THEN "blank"
  ELSE IF line.cols < 14 THEN "malformed"
  ELSE IF ~IsFinite(line.delta) THEN "delta"
  ELSE IF line.n1 # 5 \/ line.n2 # 5 THEN "heroes"
  ELSE IF ~line.known1 \/ ~line.known2 THEN "heroLookup"
  ELSE IF line.deltaFavTeam = "" \/ line.team1 = "" \/ line.team2 = "" THEN "favored"
  ELSE IF line.team1 # line.deltaFavTeam /\ line.team2 # line.deltaFavTeam THEN "favored"
  ELSE IF ~IsFinite(line.odds1) \/ ~IsFinite(line.odds2) THEN "odds"
  ELSE IF QLe(line.odds1, Odds1) \/ QLe(line.odds2, Odds1) THEN "odds"
  ELSE ""

\* loadMatches, one line that is not skipped: the match object pushed.
loadMatchesPush(line) ==
  LET deltaFavIsTeam1 == line.team1 = line.deltaFavTeam
      favOdds == IF deltaFavIsTeam1 THEN line.odds1 ELSE line.odds2
      dogOdds == IF deltaFavIsTeam1 THEN line.odds2 ELSE line.odds1
  IN  [deltaAbs |-> [n |-> Abs(line.delta.n), d |-> line.delta.d],
       deltaFavTeam |-> line.deltaFavTeam,
       deltaFavIsTeam1 |-> deltaFavIsTeam1,
       favOdds |-> favOdds, dogOdds |-> dogOdds,
       oddsRelation |-> classifyOddsRelation(favOdds, dogOdds),
       winner |-> line.winner,
       team1Pos |-> line.counts.t1.pos, team1Neg |-> line.counts.t1.neg,
       team2Pos |-> line.counts.t2.pos, team2Neg |-> line.counts.t2.neg]

\* the match objects loadMatches can hand to simulateStrategy
HawkMatches == { loadMatchesPush(l) : l \in { x \in HawkLines : loadMatchesSkip(x) = "" } }

\* buildCombos: the 36 strategy configurations, in the order pushed
Combo(group, type, amount, percent, unit, heroFilter, oddsCondition) ==
  [strategy_group |-> group, stake_type |-> type, flat_amount |-> amount,
   percent |-> percent, unit |-> unit,
   hero_filter |-> heroFilter, odds_condition |-> oddsCondition]

\* the odds conditions with favorite ahead of underdog
oddsConditionsFavoriteFirst == <<"any", "favorite", "underdog">>

oddsConditions == <<"any", "underdog", "favorite">>

flat100(amount, heroFilter) ==
  [i \in 1..3 |-> Combo("Flat100", "flat", amount, Zero, 0, heroFilter, oddsConditions[i])]

flat5(amount, heroFilter) ==
  [i \in 1..3 |-> Combo("Flat5pct", "flat", amount, Zero, 0, heroFilter, oddsConditions[i])]

\* the 5% of bankroll template pushed three times under one odds condition
pct5AnyOdds(heroFilter) ==
  [i \in 1..3 |-> Combo("Pct5", "pct_bankroll", Zero, Percent5, 0, heroFilter, oddsConditions[1])]

pct5(heroFilter) ==
  [i \in 1..3 |-> Combo("Pct5", "pct_bankroll", Zero, Percent5, 0, heroFilter, oddsConditions[i])]

fib1(unit, heroFilter) ==
  [i \in 1..3 |-> Combo(IF unit = 1 THEN "Fibo1" ELSE "Fibo5", "fibonacci", Zero, Zero, unit,
                        heroFilter, oddsConditions[i])]

flatFiveAmount == QMul(QInt(INITIAL_BANK), Percent5)

buildCombos ==
  flat100(QInt(100), "none") \o pct5("none") \o
  flat100(QInt(100), "4+4-") \o flat5(flatFiveAmount, "4+4-") \o
  flat100(QInt(100), "5+5-") \o flat5(flatFiveAmount, "5+5-") \o
  fib1(1, "none") \o fib1(1, "4+4-") \o fib1(1, "5+5-") \o
  fib1(5, "none") \o fib1(5, "4+4-") \o fib1(5, "5+5-")

\* the two filters with their numbers exchanged
heroFilterSatisfiedExchanged(match, filter) ==
  IF filter = "none" THEN TRUE
  ELSE LET favPos == IF match.deltaFavIsTeam1 THEN match.team1Pos ELSE match.team2Pos
           oppNeg == IF match.deltaFavIsTeam1 THEN match.team2Neg ELSE match.team1Neg
       IN  IF filter = "4+4-" THEN favPos >= 5 /\ oppNeg >= 5
           ELSE IF filter = "5+5-" THEN favPos >= 4 /\ oppNeg >= 4
           ELSE TRUE

heroFilterSatisfied(match, filter) ==
  IF filter = "none" THEN TRUE
  ELSE LET favPos == IF match.deltaFavIsTeam1 THEN match.team1Pos ELSE match.team2Pos
           oppNeg == IF match.deltaFavIsTeam1 THEN match.team2Neg ELSE match.team1Neg
       IN  IF filter = "4+4-" THEN favPos >= 4 /\ oppNeg >= 4
           ELSE IF filter = "5+5-" THEN favPos >= 5 /\ oppNeg >= 5
           ELSE TRUE

\* computeStake(bank, combo, fibStep): the value returned
computeStake(bank, combo, fibStep, cache) ==
  IF QLe(bank, Zero) THEN Zero
  ELSE IF combo.stake_type = "flat" THEN QMin(combo.flat_amount, bank)
  ELSE IF combo.stake_type = "pct_bankroll" THEN QMin(QMul(bank, combo.percent), bank)
  ELSE IF combo.stake_type = "fibonacci" THEN QInt(getFibNumber(cache, fibStep) * combo.unit)
  ELSE Zero

\* computeStake(bank, combo, fibStep): whether it ends in
\* throw new Error(`Unknown stake type: ...`)
computeStakeThrows(bank, combo) ==
  /\ QLt(Zero, bank)
  /\ combo.stake_type \notin {"flat", "pct_bankroll", "fibonacci"}

\* computeStake(bank, combo, fibStep): the fibCache it leaves
computeStakeCache(bank, combo, fibStep, cache) ==
  IF QLt(Zero, bank) /\ combo.stake_type = "fibonacci"
    THEN getFibNumberCache(cache, fibStep)
    ELSE cache

(***************************************************************************)
(* The state of one simulator run.  last records what the latest loop      *)
(* iteration did: "none" before the first, "break" when the loop was left, *)
(* "skip" for a continue, "bet" for a placed bet (with the stake, the      *)
(* bankroll and the Fibonacci step before it, and whether it won),         *)
(* "throw" when the iteration raised an exception.  lossRun, maxLossRun    *)
(* and maxLossRunBet are history kept for Fibonacci runs: the number of    *)
(* losing bets since the latest winning bet, the longest series of losing  *)
(* bets that a winning bet has ended, and the longest series of losing     *)
(* bets that any bet has followed.                                         *)
(***************************************************************************)
NoBet(kind) ==
  [kind |-> kind, stake |-> Zero, odds |-> Zero, bankBefore |-> Zero,
   stepBefore |-> 0, won |-> FALSE]

PlacedBet(stake, odds, bankBefore, stepBefore, won) ==
  [kind |-> "bet", stake |-> stake, odds |-> odds, bankBefore |-> bankBefore,
   stepBefore |-> stepBefore, won |-> won]

InitRun ==
  [bank |-> QInt(INITIAL_BANK), peak |-> QInt(INITIAL_BANK), maxDrawdown |-> Zero,
   maxStake |-> Zero, bets |-> 0, wins |-> 0, losses |-> 0, skipped |-> 0,
   fibStep |-> 0, maxStepReached |-> 0, status |-> "running", last |-> NoBet("none"),
   lossRun |-> 0, maxLossRun |-> 0, maxLossRunBet |-> 0, betRecords |-> <<>>]

\* the skips of simulateStrategy ahead of staking (lines 386-404)
\* the eligibility test with the threshold comparison reversed
simulateStrategyEligibleReversed(match, combo, deltaThreshold) ==
  /\ IsFinite(match.deltaAbs)
  /\ ~QLt(QInt(deltaThreshold), match.deltaAbs)
  /\ ~(combo.odds_condition = "favorite" /\ match.oddsRelation # "favorite")
  /\ ~(combo.odds_condition = "underdog" /\ match.oddsRelation # "underdog")
  /\ heroFilterSatisfied(match, combo.hero_filter)
  /\ IsFinite(match.favOdds)
  /\ QLt(Odds1, match.favOdds)

simulateStrategyEligible(match, combo, deltaThreshold) ==
  /\ IsFinite(match.deltaAbs)
  /\ ~QLt(match.deltaAbs, QInt(deltaThreshold))
  /\ ~(combo.odds_condition = "favorite" /\ match.oddsRelation # "favorite")
  /\ ~(combo.odds_condition = "underdog" /\ match.oddsRelation # "underdog")
  /\ heroFilterSatisfied(match, combo.hero_filter)
  /\ IsFinite(match.favOdds)
  /\ QLt(Odds1, match.favOdds)

\* the stake capped by MAX_BET alone
clampStakeMaxBetOnly(desiredStake, bank) ==
  QMin(desiredStake, QInt(MAX_BET))

\* Math.min(desiredStake, MAX_BET, bank)
clampStake(desiredStake, bank) ==
  QMin(QMin(desiredStake, QInt(MAX_BET)), bank)

\* the step moved back by two without the floor at 0
nextFibStepUnfloored(stepBefore, betWon) ==
  IF betWon THEN stepBefore - 2 ELSE stepBefore + 1

\* the step moved forward by two on a loss
nextFibStepLossByTwo(stepBefore, betWon) ==
  IF betWon THEN (IF stepBefore <= 1 THEN 0 ELSE stepBefore - 2)
  ELSE stepBefore + 2

\* the Fibonacci step after a bet placed at stepBefore
nextFibStep(stepBefore, betWon) ==
  IF betWon THEN (IF stepBefore <= 1 THEN 0 ELSE stepBefore - 2)
  ELSE stepBefore + 1

\* simulateStrategy: one iteration of the loop over matches
simulateStrategy(run, match, combo, deltaThreshold, cache) ==
  IF run.status # "running" THEN run
  ELSE IF QLe(run.bank, Zero)
    THEN [run EXCEPT !.bank = Zero, !.status = "busted", !.last = NoBet("break")]
  ELSE IF ~simulateStrategyEligible(match, combo, deltaThreshold)
    THEN [run EXCEPT !.last = NoBet("skip")]
  ELSE IF computeStakeThrows(run.bank, combo)
    THEN [run EXCEPT !.status = "aborted", !.last = NoBet("throw")]
  ELSE
    LET odds == match.favOdds
        desiredStake == computeStake(run.bank, combo, run.fibStep, cache)
        stake == clampStake(desiredStake, run.bank)
        stepBefore == run.fibStep
        betWon == match.winner = match.deltaFavTeam
        isFib == combo.stake_type = "fibonacci"
        bank1 == QSub(run.bank, stake)
        bank2 == IF betWon THEN QAdd(bank1, QMul(stake, odds)) ELSE bank1
    IN  IF QLe(stake, Zero) THEN [run EXCEPT !.last = NoBet("skip")]
        ELSE [run EXCEPT
                !.bank = bank2,
                !.bets = @ + 1,
                !.maxStake = IF QLt(@, stake) THEN stake ELSE @,
                !.maxStepReached = IF isFib /\ stepBefore > @ THEN stepBefore ELSE @,
                !.wins = IF betWon THEN @ + 1 ELSE @,
                !.fibStep = IF isFib THEN nextFibStep(stepBefore, betWon) ELSE @,
                !.peak = IF QLt(@, bank2) THEN bank2 ELSE @,
                !.maxDrawdown = IF QLt(run.peak, bank2) THEN @
                                ELSE IF QLt(@, QSub(run.peak, bank2))
                                  THEN QSub(run.peak, bank2) ELSE @,
                !.last = PlacedBet(stake, odds, run.bank, stepBefore, betWon),
                !.lossRun = IF ~isFib \/ betWon THEN 0 ELSE @ + 1,
                !.maxLossRun = IF isFib /\ betWon /\ run.lossRun > @ THEN run.lossRun ELSE @,
                !.maxLossRunBet = IF isFib /\ run.lossRun > @ THEN run.lossRun ELSE @]

\* simulateStrategy: the fibCache one iteration leaves
simulateStrategyCache(run, match, combo, deltaThreshold, cache) ==
  IF /\ run.status = "running"
     /\ QLt(Zero, run.bank)
     /\ simulateStrategyEligible(match, combo, deltaThreshold)
    THEN computeStakeCache(run.bank, combo, run.fibStep, cache)
    ELSE cache

\* the win percentage truncated instead of rounded
winPctTruncated(wins, bets) ==
  IF bets = 0 THEN Zero ELSE QInt(QFloor(Q(wins * 100, bets)))

\* bets === 0 ? 0 : Math.round((wins / bets) * 100)
winPct(wins, bets) ==
  IF bets = 0 THEN Zero ELSE QInt(QRound(Q(wins * 100, bets)))

\* simulateStrategy: the summary returned once the loop is left
simulateStrategySummary(run, combo, deltaThreshold) ==
  [strategy_group |-> combo.strategy_group,
   hero_filter |-> combo.hero_filter,
   odds_condition |-> combo.odds_condition,
   delta_threshold |-> deltaThreshold,
   bets |-> run.bets,
   wins |-> run.wins,
   win_pct |-> winPct(run.wins, run.bets),
   final_bank |-> QRound(run.bank),
   max_drawdown |-> QRound(run.maxDrawdown),
   max_stake |-> QRound(run.maxStake),
   max_step |-> IF combo.stake_type = "fibonacci" THEN run.maxStepReached ELSE 0]

(***************************************************************************)
(* REMAP_SOLUTION.md: the cs_pro strategy sweep (parseMatches, runStrategy)*)
(***************************************************************************)
\* One CSV row as parseMatches sees it: whether the line is empty, whether
\* the championship filter lets it through, the hero names of each side
\* (their count and whether heroIndexLookup finds them all), the
\* calcTeamStats result of each side, the parsed odds, the team and winner
\* columns.
ParseRow(blank, champ, n1, n2, known1, known2, score1, score2, counts, winner, o1, o2) ==
  [blank |-> blank, champ |-> champ, n1 |-> n1, n2 |-> n2,
   known1 |-> known1, known2 |-> known2,
   team1Stats |-> [score |-> score1, pos |-> counts.t1.pos, neg |-> counts.t1.neg],
   team2Stats |-> [score |-> score2, pos |-> counts.t2.pos, neg |-> counts.t2.neg],
   team1 |-> "A", team2 |-> "B", winner |-> winner, odds1 |-> o1, odds2 |-> o2]

ScorePairs == { <<QInt(257), QInt(250)>>, <<QInt(245), QInt(255)>> }

GoodParseRows ==
  { ParseRow(FALSE, TRUE, 5, 5, TRUE, TRUE, sc[1], sc[2], c, w, o[1], o[2]) :
      sc \in ScorePairs, c \in TeamCounts, w \in {"A", "B"}, o \in ValidOddsPairs }

BaseParseRow ==
  ParseRow(FALSE, TRUE, 5, 5, TRUE, TRUE, QInt(260), QInt(250),
           [t1 |-> [pos |-> 5, neg |-> 0], t2 |-> [pos |-> 0, neg |-> 5]],
           "A", Odds2, Odds3)

BadParseRows ==
  { [BaseParseRow EXCEPT !.blank = TRUE],
    [BaseParseRow EXCEPT !.champ = FALSE],
    [BaseParseRow EXCEPT !.n1 = 4],
    [BaseParseRow EXCEPT !.n2 = 6],
    [BaseParseRow EXCEPT !.n1 = 4, !.n2 = 6],
    [BaseParseRow EXCEPT !.known1 = FALSE],
    [BaseParseRow EXCEPT !.known2 = FALSE],
    [BaseParseRow EXCEPT !.odds1 = NaN],
    [BaseParseRow EXCEPT !.odds2 = NaN],
    [BaseParseRow EXCEPT !.odds1 = Odds1],
    [BaseParseRow EXCEPT !.odds2 = Odds1],
    [BaseParseRow EXCEPT !.known2 = FALSE, !.odds1 = Odds1],
    [BaseParseRow EXCEPT !.winner = ""],
    [BaseParseRow EXCEPT !.team1Stats.score = QInt(250)] }

ParseRows == GoodParseRows \cup BadParseRows

\* parseMatches, one row: the skip counter it increments ("blank" for the
\* uncounted `if (!line) continue`), or "" when the row is pushed.
parseMatchesSkip(row) ==
  IF row.blank THEN "blank"
  ELSE IF ~row.champ THEN "skippedChampionship"
  ELSE IF row.n1 # 5 \/ row.n2 # 5 THEN "skippedMissingHero"
  ELSE IF ~row.known1 \/ ~row.known2 THEN "skippedMissingHero"
  ELSE IF ~IsFinite(row.odds1) \/ ~IsFinite(row.odds2) THEN "skippedOdds"
  ELSE IF QLe(row.odds1, Odds1) \/ QLe(row.odds2, Odds1) THEN "skippedOdds"
  ELSE ""

\* the 1e-9 tolerance of favoredIsFavorite / favoredIsUnderdog
OddsEps == Q(1, 1000000000)

\* parseMatches, one row that is not skipped: the match object pushed.
parseMatchesPush(row) ==
  LET delta == QSub(row.team1Stats.score, row.team2Stats.score)
      favoredFirst == QLe(Zero, delta)
      favoredTeam == IF favoredFirst THEN row.team1 ELSE row.team2
      favoredScore == IF favoredFirst THEN row.team1Stats ELSE row.team2Stats
      opponentScore == IF favoredFirst THEN row.team2Stats ELSE row.team1Stats
      favoredOdds == IF favoredFirst THEN row.odds1 ELSE row.odds2
      opponentOdds == IF favoredFirst THEN row.odds2 ELSE row.odds1
      oddsDiff == QSub(favoredOdds, opponentOdds)
  IN  [absDelta |-> [n |-> Abs(delta.n), d |-> delta.d],
       favoredOdds |-> favoredOdds,
       opponentOdds |-> opponentOdds,
       betWin |-> row.winner # "" /\ row.winner = favoredTeam,
       heroFilter4 |-> favoredScore.pos >= 4 /\ opponentScore.neg >= 4,
       heroFilter5 |-> favoredScore.pos >= 5 /\ opponentScore.neg >= 5,
       favoredIsFavorite |-> QLt(oddsDiff, QSub(Zero, OddsEps)),
       favoredIsUnderdog |-> QLt(OddsEps, oddsDiff)]

\* the match objects parseMatches can hand to runStrategy
ParsedMatches == { parseMatchesPush(r) : r \in { x \in ParseRows : parseMatchesSkip(x) = "" } }

\* STRATEGY_DEFS: the 36 configurations, in the order pushed
withOdds(group, heroFilter, stakeType, amount, percent, unit) ==
  [i \in 1..3 |-> Combo(group, stakeType, amount, percent, unit, heroFilter, oddsConditions[i])]

HeroFilters == <<"none", "4+4-", "5+5-">>

STRATEGY_DEFS ==
  withOdds("Flat100", "none", "flat_amount", QInt(100), Zero, 0) \o
  withOdds("Bankroll5pct", "none", "bankroll_percent", Zero, Percent5, 0) \o
  withOdds("Flat100", "4+4-", "flat_amount", QInt(100), Zero, 0) \o
  withOdds("Flat5pct", "4+4-", "flat_percent", Zero, Percent5, 0) \o
  withOdds("Flat100", "5+5-", "flat_amount", QInt(100), Zero, 0) \o
  withOdds("Flat5pct", "5+5-", "flat_percent", Zero, Percent5, 0) \o
  withOdds("Fib1", HeroFilters[1], "fibonacci", Zero, Zero, 1) \o
  withOdds("Fib1", HeroFilters[2], "fibonacci", Zero, Zero, 1) \o
  withOdds("Fib1", HeroFilters[3], "fibonacci", Zero, Zero, 1) \o
  withOdds("Fib5", HeroFilters[1], "fibonacci", Zero, Zero, 5) \o
  withOdds("Fib5", HeroFilters[2], "fibonacci", Zero, Zero, 5) \o
  withOdds("Fib5", HeroFilters[3], "fibonacci", Zero, Zero, 5)

shouldBet(match, config, threshold) ==
  IF QLt(match.absDelta, QInt(threshold)) THEN FALSE
  ELSE IF config.hero_filter = "4+4-" /\ ~match.heroFilter4 THEN FALSE
  ELSE IF config.hero_filter = "5+5-" /\ ~match.heroFilter5 THEN FALSE
  ELSE IF config.odds_condition = "underdog" /\ ~match.favoredIsUnderdog THEN FALSE
  ELSE IF config.odds_condition = "favorite" /\ ~match.favoredIsFavorite THEN FALSE
  ELSE TRUE

\* computeStake(config, state) of the cs_pro sweep
runComputeStake(config, bank, fibIndex, flatPercentAmount, cache) ==
  IF config.stake_type = "flat_amount" THEN config.flat_amount
  ELSE IF config.stake_type = "flat_percent" THEN QInt(flatPercentAmount)
  ELSE IF config.stake_type = "bankroll_percent" THEN QMul(bank, config.percent)
  ELSE IF config.stake_type = "fibonacci" THEN QInt(fibValue(cache, fibIndex) * config.unit)
  ELSE Zero

clipMoney(value) ==
  LET rounded == QRound(value)
  IN  IF rounded < 0 THEN 0 ELSE rounded

\* runStrategy: one iteration of the loop over matches
runStrategy(run, match, config, threshold, cache) ==
  IF run.status # "running" THEN run
  ELSE IF QLe(run.bank, Zero) THEN [run EXCEPT !.status = "busted", !.last = NoBet("break")]
  ELSE IF ~shouldBet(match, config, threshold) THEN [run EXCEPT !.last = NoBet("skip")]
  ELSE
    LET flatPercentAmount == QRound(QMul(QInt(INITIAL_BANK), config.percent))
        stake0 == runComputeStake(config, run.bank, run.fibStep, flatPercentAmount, cache)
        stake == QInt(QRound(QMin(QMin(stake0, run.bank), QInt(MAX_BET))))
        isFib == config.stake_type = "fibonacci"
        bank1 == QSub(run.bank, stake)
        payout == QInt(QRound(QMul(stake, match.favoredOdds)))
        bank2 == IF match.betWin THEN QInt(clipMoney(QAdd(bank1, payout))) ELSE bank1
    IN  IF QLe(stake0, Zero) \/ QLe(stake, Zero) THEN [run EXCEPT !.last = NoBet("skip")]
        ELSE [run EXCEPT
                !.bets = @ + 1,
                !.maxStake = QMax(@, stake),
                !.maxStepReached = IF isFib /\ run.fibStep > @ THEN run.fibStep ELSE @,
                !.bank = bank2,
                !.wins = IF match.betWin THEN @ + 1 ELSE @,
                !.fibStep = IF ~isFib THEN @
                            ELSE IF match.betWin THEN (IF @ - 2 > 0 THEN @ - 2 ELSE 0)
                            ELSE @ + 1,
                !.peak = IF QLt(@, bank2) THEN bank2 ELSE @,
                !.maxDrawdown = IF QLt(run.peak, bank2) THEN @
                                ELSE IF QLt(@, QSub(run.peak, bank2))
                                  THEN QSub(run.peak, bank2) ELSE @,
                !.last = PlacedBet(stake, match.favoredOdds, run.bank, run.fibStep, match.betWin),
                !.lossRun = IF ~isFib \/ match.betWin THEN 0 ELSE @ + 1,
                !.maxLossRun = IF isFib /\ match.betWin /\ run.lossRun > @
                                 THEN run.lossRun ELSE @,
                !.maxLossRunBet = IF isFib /\ run.lossRun > @ THEN run.lossRun ELSE @]

\* runStrategy: the fibCache one iteration leaves
runStrategyCache(run, match, config, threshold, cache) ==
  IF /\ run.status = "running"
     /\ QLt(Zero, run.bank)
     /\ shouldBet(match, config, threshold)
     /\ config.stake_type = "fibonacci"
    THEN GrowFibCache(cache, run.fibStep)
    ELSE cache

\* runStrategy: the summary returned once the loop is left
runStrategySummary(run, config, threshold) ==
  [strategy_group |-> config.strategy_group,
   hero_filter |-> config.hero_filter,
   odds_condition |-> config.odds_condition,
   delta_threshold |-> threshold,
   bets |-> run.bets,
   wins |-> run.wins,
   win_pct |-> IF run.bets # 0 THEN QInt(QRound(Q(run.wins * 100, run.bets))) ELSE Zero,
   final_bank |-> clipMoney(run.bank),
   max_drawdown |-> clipMoney(run.maxDrawdown),
   max_stake |-> QRound(run.maxStake),
   max_step |-> IF config.stake_type = "fibonacci" THEN run.maxStepReached ELSE 0]

(***************************************************************************)
(* The delta-percentage simulators: run (delta_pct_strategy.js), execute   *)
(* (run_delta_pct_custom.js) and simulate.  Each reads the CSV rows        *)
(* unvalidated and scores every row against the matrix inside its loop.    *)
(***************************************************************************)
\* One CSV row as the loop sees it: the number of names team1_heroes and
\* team2_heroes split into, whether every name is in the hero index, the
\* delta the matrix gives the ten heroes, the team / winner columns and the
\* parsed odds.
DeltaRow(n1, n2, known, delta, winner, o1, o2) ==
  [n1 |-> n1, n2 |-> n2, known |-> known, delta |-> delta,
   team1 |-> "A", team2 |-> "B", winner |-> winner, odds1 |-> o1, odds2 |-> o2]

DeltaValues == { Q(1, 2), QInt(50), QInt(0 - 200), QInt(1500) }

GoodDeltaRows ==
  { DeltaRow(5, 5, TRUE, d, w, o[1], o[2]) :
      d \in DeltaValues, w \in {"A", "B"}, o \in ValidOddsPairs }

BaseDeltaRow == DeltaRow(5, 5, TRUE, QInt(50), "A", Odds2, Odds3)

BadDeltaRows ==
  { [BaseDeltaRow EXCEPT !.n1 = 4],
    [BaseDeltaRow EXCEPT !.n2 = 6],
    [BaseDeltaRow EXCEPT !.n1 = 4, !.n2 = 6],
    [BaseDeltaRow EXCEPT !.n1 = 4, !.known = FALSE],
    [BaseDeltaRow EXCEPT !.known = FALSE],
    [BaseDeltaRow EXCEPT !.delta = Zero],
    [BaseDeltaRow EXCEPT !.odds1 = NaN],
    [BaseDeltaRow EXCEPT !.odds2 = NaN],
    [BaseDeltaRow EXCEPT !.odds1 = Odds1],
    [BaseDeltaRow EXCEPT !.odds2 = Odds1],
    [BaseDeltaRow EXCEPT !.delta = QInt(0 - 200), !.odds1 = Odds1] }

DeltaRows == GoodDeltaRows \cup BadDeltaRows

\* the outcomes of loadMatrix(...).delta(match)
DeltaNull == "null"
DeltaThrows == "throws"
DeltaValue == "value"

\* delta(match): null for a side without exactly 5 names, an exception
\* thrown by heroScore for a name missing from the index, else the value
deltaOutcome(row) ==
  IF row.n1 # 5 \/ row.n2 # 5 THEN DeltaNull
  ELSE IF ~row.known THEN DeltaThrows
  ELSE DeltaValue

\* whether the loop checks the odds of both sides (run) or of the favored
\* side alone (execute, simulate)
ChecksOpponentOdds(simulator) == simulator = "run"

\* the odds test of the loop: TRUE when the row is skipped for its odds
deltaPctOddsSkip(simulator, favoredOdds, oppOdds) ==
  \/ ~IsFinite(favoredOdds)
  \/ QLe(favoredOdds, Odds1)
  \/ /\ ChecksOpponentOdds(simulator)
     /\ (~IsFinite(oppOdds) \/ QLe(oppOdds, Odds1))

\* the stake without the max-bet cap
deltaPctStakeUncapped(bank, delta, maxBet) ==
  LET pct == QMin(QMul([n |-> Abs(delta.n), d |-> delta.d], Q(1, 1000)), QInt(1))
      s0 == QMul(bank, pct)
      s2 == IF QLt(bank, s0) THEN bank ELSE s0
  IN  QInt(QFloor(s2))

\* stake = floor(min(bank * pct, cap, bank)) with pct = min(|delta| / 1000, 1);
\* maxBet <= 0 is no cap (execute), run and simulate cap at MAX_BET
deltaPctStake(bank, delta, maxBet) ==
  LET pct == QMin(QMul([n |-> Abs(delta.n), d |-> delta.d], Q(1, 1000)), QInt(1))
      s0 == QMul(bank, pct)
      s1 == IF QLt(Zero, maxBet) /\ QLt(maxBet, s0) THEN maxBet ELSE s0
      s2 == IF QLt(bank, s1) THEN bank ELSE s1
  IN  QInt(QFloor(s2))

\* the simulators that keep a ledger of their bets (simulate keeps none)
KeepsBetRecords(simulator) == simulator \in {"run", "execute"}

\* a ledger row whose bank_before is read after the bet was settled
betRecordSettled(stake, won, payout, bankBefore, bank) ==
  [stake |-> stake, outcome |-> IF won THEN "win" ELSE "loss", payout |-> payout,
   bank_before |-> bank, bank_after |-> bank]

\* betRecords.push({..., stake, outcome, payout, bank_before, bank_after})
betRecord(stake, won, payout, bankBefore, bank) ==
  [stake |-> stake, outcome |-> IF won THEN "win" ELSE "loss", payout |-> payout,
   bank_before |-> bankBefore, bank_after |-> bank]

\* one iteration of the loop of run / execute / simulate
deltaPctStep(simulator, run, row, maxBet) ==
  IF run.status # "running" THEN run
  ELSE IF deltaOutcome(row) = DeltaThrows
    THEN [run EXCEPT !.status = "aborted", !.last = NoBet("throw")]
  ELSE IF deltaOutcome(row) = DeltaNull \/ row.delta = Zero
    THEN [run EXCEPT !.skipped = @ + 1, !.last = NoBet("skip")]
  ELSE
    LET favored == IF QLt(Zero, row.delta) THEN row.team1 ELSE row.team2
        favoredOdds == IF QLt(Zero, row.delta) THEN row.odds1 ELSE row.odds2
        oppOdds == IF QLt(Zero, row.delta) THEN row.odds2 ELSE row.odds1
        stake == deltaPctStake(run.bank, row.delta, maxBet)
        won == row.winner = favored
        bank1 == QSub(run.bank, stake)
        payout == IF won THEN QInt(QFloor(QMul(stake, favoredOdds))) ELSE Zero
        bank2 == QAdd(bank1, payout)
        peak2 == IF QLt(run.peak, bank2) THEN bank2 ELSE run.peak
        drawdown == QSub(peak2, bank2)
    IN  IF deltaPctOddsSkip(simulator, favoredOdds, oppOdds)
          THEN [run EXCEPT !.skipped = @ + 1, !.last = NoBet("skip")]
        ELSE IF QLe(stake, Zero) THEN [run EXCEPT !.last = NoBet("skip")]
        ELSE [run EXCEPT
                !.bets = @ + 1,
                !.bank = bank2,
                !.wins = IF won THEN @ + 1 ELSE @,
                !.losses = IF won THEN @ ELSE @ + 1,
                !.peak = peak2,
                !.maxDrawdown = IF QLt(@, drawdown) THEN drawdown ELSE @,
                !.maxStake = IF QLt(@, stake) THEN stake ELSE @,
                !.status = IF QLe(bank2, Zero) THEN "busted" ELSE @,
                !.betRecords = IF KeepsBetRecords(simulator)
                                 THEN Append(@, betRecord(stake, won, payout, run.bank, bank2))
                                 ELSE @,
                !.last = PlacedBet(stake, favoredOdds, run.bank, 0, won)]

\* Number.prototype.toFixed(2): the value rounded to two decimals
toFixed2(x) == Q(QRound(QMul(x, QInt(100))), 100)

\* the summary row of run / execute (simulate returns the same counters);
\* win_pct is ((wins / bets) * 100).toFixed(2)
deltaPctSummary(run) ==
  [strategy_group |-> "DeltaPctBankroll",
   hero_filter |-> "none",
   odds_condition |-> "any",
   delta_threshold |-> 0,
   bets |-> run.bets,
   wins |-> run.wins,
   win_pct |-> IF run.bets # 0 THEN toFixed2(Q(run.wins * 100, run.bets)) ELSE Zero,
   final_bank |-> QRound(run.bank),
   max_drawdown |-> QRound(run.maxDrawdown),
   max_stake |-> QRound(run.maxStake),
   max_step |-> 0]

(***************************************************************************)
(* The matrix builders: buildMatrix (build_cs_matrix.js) and processMatch  *)
(* (build_opendota_matrix.js).                                             *)
(***************************************************************************)
\* ids 1..10 are heroes the hero map knows; id 11 is absent from the map
HeroIds == 1..11

\* heroMap.get: the matrix index of a hero id, -1 for undefined
heroMap(heroId) == IF heroId \in 1..10 THEN heroId - 1 ELSE 0 - 1

\* the keys of heroStats / pairStats: matrix indexes and raw hero ids
HeroKeys == 0..11

\* a side that normalizeHeroIds rejects
Null == <<>>

\* normalizeHeroIds: the mapped ids of a side, or null when an id is not in
\* the map or the side does not have exactly five entries
normalizeHeroIds(rawHeroes) ==
  IF \E k \in DOMAIN rawHeroes : heroMap(rawHeroes[k]) < 0 THEN Null
  ELSE IF Len(rawHeroes) = 5 THEN [k \in DOMAIN rawHeroes |-> heroMap(rawHeroes[k])]
  ELSE Null

\* one raw match: the hero ids of each side and whether radiant won
MatrixRecord(radiant, dire, radiantWin) ==
  [radiant |-> radiant, dire |-> dire, radiantWin |-> radiantWin]

Lineups ==
  { <<<<1, 2, 3, 4, 5>>, <<6, 7, 8, 9, 10>>>>,
    <<<<6, 2, 3, 4, 5>>, <<1, 7, 8, 9, 10>>>> }

GoodMatrixRecords ==
  { MatrixRecord(l[1], l[2], w) : l \in Lineups, w \in BOOLEAN }

BadMatrixRecords ==
  { MatrixRecord(<<1, 2, 3, 4>>, <<6, 7, 8, 9, 10>>, TRUE),
    MatrixRecord(<<1, 2, 3, 4>>, <<5, 6, 7, 8, 9, 10>>, TRUE),
    MatrixRecord(<<1, 2, 3, 4, 5>>, <<6, 7, 8, 9, 10, 1>>, FALSE),
    MatrixRecord(<<1, 2, 3, 4, 5>>, <<>>, TRUE),
    MatrixRecord(<<11, 2, 3, 4, 5>>, <<6, 7, 8, 9, 10>>, FALSE) }

MatrixRecords == GoodMatrixRecords \cup BadMatrixRecords

NoStats == [games |-> 0, wins |-> 0]

\* a win credited with every game the hero has played so far
updateHeroStreak(stats, id, win) ==
  [stats EXCEPT ![id] = [games |-> @.games + 1,
                         wins |-> IF win THEN @.games + 1 ELSE @.wins]]

\* hs.games += 1; if (win) hs.wins += 1
updateHero(stats, id, win) ==
  [stats EXCEPT ![id] = [games |-> @.games + 1,
                         wins |-> IF win THEN @.wins + 1 ELSE @.wins]]

\* side.forEach((id) => updateHero(id, win))
RECURSIVE forEachUpdateHero(_, _, _)
forEachUpdateHero(stats, ids, win) ==
  IF ids = <<>> THEN stats
  ELSE forEachUpdateHero(updateHero(stats, Head(ids), win), Tail(ids), win)

\* the pair loops' body without the reverse cell
pairCellForward(stats, r, d, radiantWin) ==
  [stats EXCEPT
     ![r][d] = [games |-> @.games + 1,
                wins |-> IF radiantWin THEN @.wins + 1 ELSE @.wins]]

\* the reverse cell credited with the win of the forward cell
pairCellBothWin(stats, r, d, radiantWin) ==
  LET cell == [stats EXCEPT
                 ![r][d] = [games |-> @.games + 1,
                            wins |-> IF radiantWin THEN @.wins + 1 ELSE @.wins]]
  IN  [cell EXCEPT
         ![d][r] = [games |-> @.games + 1,
                    wins |-> IF radiantWin THEN @.wins + 1 ELSE @.wins]]

\* the body of the pair loops: the cell [r][d] and the reverse cell [d][r]
pairCell(stats, r, d, radiantWin) ==
  LET cell == [stats EXCEPT
                 ![r][d] = [games |-> @.games + 1,
                            wins |-> IF radiantWin THEN @.wins + 1 ELSE @.wins]]
  IN  [cell EXCEPT
         ![d][r] = [games |-> @.games + 1,
                    wins |-> IF ~radiantWin THEN @.wins + 1 ELSE @.wins]]

\* for (const d of dire) ...
RECURSIVE pairRow(_, _, _, _)
pairRow(stats, r, dire, radiantWin) ==
  IF dire = <<>> THEN stats
  ELSE pairRow(pairCell(stats, r, Head(dire), radiantWin), r, Tail(dire), radiantWin)

\* for (const r of radiant) for (const d of dire) ...
RECURSIVE pairLoops(_, _, _, _)
pairLoops(stats, radiant, dire, radiantWin) ==
  IF radiant = <<>> THEN stats
  ELSE pairLoops(pairRow(stats, Head(radiant), dire, radiantWin),
                 Tail(radiant), dire, radiantWin)

\* buildMatrix, one iteration of the loop over the raw matches
buildMatrix(m, match) ==
  LET radiant == normalizeHeroIds(match.radiant)
      dire == normalizeHeroIds(match.dire)
  IN  IF radiant = Null \/ dire = Null
        THEN [m EXCEPT !.skipped = @ + 1]
        ELSE [m EXCEPT
                !.heroStats = forEachUpdateHero(
                                forEachUpdateHero(@, radiant, match.radiantWin),
                                dire, ~match.radiantWin),
                !.pairStats = pairLoops(@, radiant, dire, match.radiantWin),
                !.processed = @ + 1]

\* processMatch: returns at once unless the match has 10 players; the
\* players are split by their isRadiant flag and every one is counted
processMatch(m, match) ==
  IF Len(match.radiant) + Len(match.dire) # 10 THEN m
  ELSE [m EXCEPT
          !.heroStats = forEachUpdateHero(
                          forEachUpdateHero(@, match.radiant, match.radiantWin),
                          match.dire, ~match.radiantWin),
          !.pairStats = pairLoops(@, match.radiant, match.dire, match.radiantWin)]

InitMatrix ==
  [heroStats |-> [h \in HeroKeys |-> NoStats],
   pairStats |-> [a \in HeroKeys |-> [b \in HeroKeys |-> NoStats]],
   processed |-> 0,
   skipped |-> 0]

(***************************************************************************)
(* State.                                                                  *)
(***************************************************************************)
VARIABLES
  simulator,    \* which program runs: "simulateStrategy", "runStrategy",
                \* "run", "execute", "simulate", or a matrix builder:
                \* "buildMatrix", "processMatch"
  combos,       \* the strategy configurations main iterates over
  config,       \* the strategy configuration of the run(s)
  thresholds,   \* the delta thresholds replayed over the same corpus
  maxBet,       \* the max-bet cap (opts.maxBet of execute, MAX_BET otherwise)
  replay,       \* "broad": a short corpus of any records; "deep": a long
                \* corpus of records of the fixed shape DeepHawkMatches;
                \* "streak": a longer corpus of deep records that all lose;
                \* "file": the corpus is the list the loader built from one
                \* input file, replayed by every run of main
  matches,      \* the list the loader returned ("file" replays)
  rows,         \* the summary rows main has collected ("file" replays)
  runs,         \* runs[i]: the state of the run at thresholds[i]
  fibCache,     \* the process-wide Fibonacci cache
  consumed,     \* how many corpus records the loop has been given
  phase,        \* "loop", "done" (summary returned), "crashed" (exception)
  summaries,    \* summaries[i]: the summary of run i once phase = "done"
  matrix,       \* heroStats, pairStats, processed, skipped of a builder
  ingested      \* how many times each raw match was given to the builder

vars ==
  <<simulator, combos, config, thresholds, maxBet, replay, matches, rows, runs, fibCache,
    consumed, phase, summaries, matrix, ingested>>

SweepSimulators == {"simulateStrategy", "runStrategy"}
DeltaPctSimulators == {"run", "execute", "simulate"}
MatrixBuilders == {"buildMatrix", "processMatch"}

\* thresholds of single runs: 0 lets every delta through, 10 is an entry of
\* DELTA_THRESHOLDS that the smaller deltas of the corpora fall below
Thresholds == {0, 10}

\* two consecutive entries of DELTA_THRESHOLDS, replayed over one corpus
SweepThresholds == <<5, 10>>

\* --max-bet values given to execute (0: no cap)
MaxBetOptions == {QInt(0), QInt(150), QInt(MAX_BET)}

Range(f) == { f[i] : i \in DOMAIN f }

DeltaPctConfig == Combo("DeltaPctBankroll", "delta_pct", Zero, Zero, 0, "none", "any")

SweepConfigs(sim) ==
  IF sim = "simulateStrategy" THEN Range(buildCombos) ELSE Range(STRATEGY_DEFS)

\* the configurations replayed over long corpora: no hero filter, any odds
DeepConfigs(sim) ==
  { c \in SweepConfigs(sim) :
      /\ c.hero_filter = "none"
      /\ c.odds_condition = "any"
      /\ c.strategy_group \in {"Flat100", "Fibo1", "Fibo5", "Fib1", "Fib5"} }

\* the records of long corpora: team 1 favored at odds 2.0, every hero
\* filter passed, |delta| at least the smaller sweep threshold and below or
\* at the larger one, won or lost
DeepHawkMatches ==
  { m \in HawkMatches :
      /\ m.deltaFavIsTeam1
      /\ m.favOdds = Odds2
      /\ heroFilterSatisfied(m, "5+5-")
      /\ QLe(QInt(SweepThresholds[1]), m.deltaAbs) }

DeepParsedMatches ==
  { m \in ParsedMatches :
      /\ m.favoredOdds = Odds2
      /\ m.heroFilter5
      /\ QLe(QInt(SweepThresholds[1]), m.absDelta) }

\* the records of losing streaks: deep records the favored team lost
StreakParsedMatches == { m \in DeepParsedMatches : ~m.betWin }

\* the configurations replayed over losing streaks: 5% of the bankroll
StreakConfigs ==
  { c \in Range(STRATEGY_DEFS) :
      c.stake_type = "bankroll_percent" /\ c.odds_condition = "any" }

NothingIngested == [r \in MatrixRecords |-> 0]

\* no matrix is built while a simulator runs
NoMatrix == [heroStats |-> <<>>, pairStats |-> <<>>, processed |-> 0, skipped |-> 0]

InitSimulation(sim, cfg, ths, cap, kind) ==
  /\ simulator = sim
  /\ combos = <<cfg>>
  /\ config = cfg
  /\ thresholds = ths
  /\ maxBet = cap
  /\ replay = kind
  /\ matches = <<>>
  /\ rows = <<>>
  /\ runs = [i \in DOMAIN ths |-> InitRun]
  /\ fibCache = <<1, 1>>
  /\ consumed = 0
  /\ phase = "loop"
  /\ summaries = <<>>
  /\ matrix = IF sim \in MatrixBuilders THEN InitMatrix ELSE NoMatrix
  /\ ingested = IF sim \in MatrixBuilders THEN NothingIngested ELSE <<>>

\* single runs: every configuration over short corpora, the unfiltered flat
\* and Fibonacci configurations over long ones, and 5% of the bankroll over
\* losing streaks
Init ==
  \/ \E sim \in SweepSimulators, t \in Thresholds :
       \E cfg \in SweepConfigs(sim) :
         InitSimulation(sim, cfg, <<t>>, QInt(MAX_BET), "broad")
  \/ \E sim \in SweepSimulators :
       \E cfg \in DeepConfigs(sim) :
         InitSimulation(sim, cfg, <<0>>, QInt(MAX_BET), "deep")
  \/ \E cfg \in StreakConfigs :
       InitSimulation("runStrategy", cfg, <<0>>, QInt(MAX_BET), "streak")
  \/ \E sim \in {"run", "simulate"} :
       InitSimulation(sim, DeltaPctConfig, <<0>>, QInt(MAX_BET), "broad")
  \/ \E cap \in MaxBetOptions :
       InitSimulation("execute", DeltaPctConfig, <<0>>, cap, "broad")

\* the sweep: one configuration replayed at two thresholds over one corpus
InitSweep ==
  \/ \E sim \in SweepSimulators :
       \E cfg \in SweepConfigs(sim) :
         InitSimulation(sim, cfg, SweepThresholds, QInt(MAX_BET), "broad")
  \/ \E sim \in SweepSimulators :
       \E cfg \in { c \in DeepConfigs(sim) : c.strategy_group = "Flat100" } :
         InitSimulation(sim, cfg, SweepThresholds, QInt(MAX_BET), "deep")

\* a matrix build
InitBuild ==
  \E b \in MatrixBuilders :
    InitSimulation(b, DeltaPctConfig, <<>>, QInt(MAX_BET), "broad")

SomeRunning == \E i \in DOMAIN runs : runs[i].status = "running"

CorpusBound ==
  IF replay = "file" THEN Len(matches)
  ELSE IF replay = "deep" THEN MaxSweepMatches
  ELSE IF replay = "streak" THEN MaxStreak
  ELSE MaxMatches

\* the matches the next iteration of the loop can be given
NextMatches(broad, deep) ==
  IF replay = "file" THEN {matches[consumed + 1].match}
  ELSE IF replay \in {"deep", "streak"} THEN deep
  ELSE broad

\* the cache after the iterations of runs 1..i on one match
RECURSIVE SweepCache(_, _, _)
SweepCache(i, match, cache) ==
  IF i = 0 THEN cache
  ELSE LET before == SweepCache(i - 1, match, cache)
       IN  IF simulator = "simulateStrategy"
             THEN simulateStrategyCache(runs[i], match, config, thresholds[i], before)
             ELSE runStrategyCache(runs[i], match, config, thresholds[i], before)

\* simulateStrategy consumes the next match of the list loadMatches built
SimulateStrategyIter ==
  /\ simulator = "simulateStrategy"
  /\ phase = "loop"
  /\ SomeRunning
  /\ consumed < CorpusBound
  /\ \E match \in NextMatches(HawkMatches, DeepHawkMatches) :
       /\ runs' = [i \in DOMAIN runs |->
                     simulateStrategy(runs[i], match, config, thresholds[i], fibCache)]
       /\ fibCache' = SweepCache(Len(runs), match, fibCache)
  /\ phase' = IF \E i \in DOMAIN runs : runs'[i].status = "aborted" THEN "crashed" ELSE phase
  /\ consumed' = consumed + 1
  /\ UNCHANGED <<simulator, combos, config, thresholds, maxBet, replay, matches, rows,
                 summaries, matrix, ingested>>

\* runStrategy consumes the next match of the list parseMatches built
RunStrategyIter ==
  /\ simulator = "runStrategy"
  /\ phase = "loop"
  /\ SomeRunning
  /\ consumed < CorpusBound
  /\ \E match \in NextMatches(ParsedMatches, IF replay = "streak" THEN StreakParsedMatches
                                                 ELSE DeepParsedMatches) :
       /\ runs' = [i \in DOMAIN runs |->
                     runStrategy(runs[i], match, config, thresholds[i], fibCache)]
       /\ fibCache' = SweepCache(Len(runs), match, fibCache)
  /\ consumed' = consumed + 1
  /\ UNCHANGED <<simulator, combos, config, thresholds, maxBet, replay, matches, rows, phase,
                 summaries, matrix, ingested>>

\* run / execute / simulate consume the next CSV row
DeltaPctIter ==
  /\ simulator \in DeltaPctSimulators
  /\ phase = "loop"
  /\ SomeRunning
  /\ consumed < CorpusBound
  /\ \E row \in NextMatches(DeltaRows, DeltaRows) :
       /\ runs' = [i \in DOMAIN runs |-> deltaPctStep(simulator, runs[i], row, maxBet)]
       /\ phase' = IF deltaOutcome(row) = DeltaThrows THEN "crashed" ELSE phase
  /\ consumed' = consumed + 1
  /\ UNCHANGED <<simulator, combos, config, thresholds, maxBet, replay, matches, rows, fibCache,
                 summaries, matrix, ingested>>

Summary(i) ==
  IF simulator = "simulateStrategy"
    THEN simulateStrategySummary(runs[i], config, thresholds[i])
  ELSE IF simulator = "runStrategy"
    THEN runStrategySummary(runs[i], config, thresholds[i])
  ELSE deltaPctSummary(runs[i])

\* the corpus is exhausted, or the loop was left: the summary is returned
Finish ==
  /\ simulator \notin MatrixBuilders
  /\ replay # "file"
  /\ phase = "loop"
  /\ phase' = "done"
  /\ summaries' = [i \in DOMAIN runs |-> Summary(i)]
  /\ UNCHANGED <<simulator, combos, config, thresholds, maxBet, replay, matches, rows, runs,
                 fibCache, consumed, matrix, ingested>>

\* buildMatrix takes the next raw match of the input file
BuildMatrixIter ==
  /\ simulator = "buildMatrix"
  /\ phase = "loop"
  /\ consumed < MaxRecords
  /\ \E match \in MatrixRecords :
       /\ matrix' = buildMatrix(matrix, match)
       /\ ingested' = [ingested EXCEPT ![match] = @ + 1]
  /\ consumed' = consumed + 1
  /\ UNCHANGED <<simulator, combos, config, thresholds, maxBet, replay, matches, rows, runs,
                 fibCache, phase, summaries>>

\* the stream hands processMatch the next match of the dump
ProcessMatchData ==
  /\ simulator = "processMatch"
  /\ phase = "loop"
  /\ consumed < MaxRecords
  /\ \E match \in MatrixRecords :
       /\ matrix' = processMatch(matrix, match)
       /\ ingested' = [ingested EXCEPT ![match] = @ + 1]
  /\ consumed' = consumed + 1
  /\ UNCHANGED <<simulator, combos, config, thresholds, maxBet, replay, matches, rows, runs,
                 fibCache, phase, summaries>>

(***************************************************************************)
(* main: the input file is loaded once, and every run replays the list     *)
(* the loader returned.                                                    *)
(***************************************************************************)
\* the longest input file of a "file" replay
MaxFileLines == 3

\* the date, series_id, map_number and hawk_match_id columns of the lines
\* of the modelled files, as numbers
FileTokens ==
  << <<2, 1, 1, 1>>, <<1, 2, 1, 1>>, <<1, 1, 2, 1>>, <<1, 1, 1, 2>>, <<1, 1, 1, 1>> >>

AllPositive == [t1 |-> [pos |-> 5, neg |-> 0], t2 |-> [pos |-> 0, neg |-> 5]]

\* the lines of the modelled hawk_matches_merged.csv files; the last one has
\* no team1 odds
FileHawkLines ==
  << HawkLine(FALSE, 14, QInt(7), 5, 5, TRUE, TRUE, AllPositive, "A", "A", Odds2, Odds3),
     HawkLine(FALSE, 14, QInt(0 - 10), 5, 5, TRUE, TRUE, AllPositive, "A", "B", Odds2, Odds3),
     HawkLine(FALSE, 14, QInt(0 - 10), 5, 5, TRUE, TRUE, AllPositive, "B", "B", Odds3, Odds2),
     HawkLine(FALSE, 14, QInt(7), 5, 5, TRUE, TRUE, AllPositive, "A", "B", Odds18, Odds18),
     [BaseHawkLine EXCEPT !.odds1 = NaN] >>

\* the rows of the modelled cs_pro input files
FileParseRows ==
  << ParseRow(FALSE, TRUE, 5, 5, TRUE, TRUE, QInt(257), QInt(250), AllPositive, "A", Odds2, Odds3),
     ParseRow(FALSE, TRUE, 5, 5, TRUE, TRUE, QInt(245), QInt(255), AllPositive, "A", Odds3, Odds2),
     ParseRow(FALSE, TRUE, 5, 5, TRUE, TRUE, QInt(245), QInt(255), AllPositive, "B", Odds3, Odds2),
     ParseRow(FALSE, TRUE, 5, 5, TRUE, TRUE, QInt(257), QInt(250), AllPositive, "B", Odds18, Odds18),
     [BaseParseRow EXCEPT !.odds1 = NaN] >>

\* the rows of the modelled input files of run / execute / simulate
FileDeltaRows ==
  << DeltaRow(5, 5, TRUE, QInt(50), "A", Odds2, Odds3),
     DeltaRow(5, 5, TRUE, QInt(0 - 200), "A", Odds3, Odds2),
     DeltaRow(5, 5, TRUE, QInt(1500), "B", Odds2, Odds3),
     DeltaRow(5, 5, TRUE, Q(1, 2), "A", Odds18, Odds18),
     [BaseDeltaRow EXCEPT !.n1 = 4] >>

\* one line of a file: its content and its order columns
FileLine(content, token) == [line |-> content, orderToken |-> token]

FileLines(contents) == { FileLine(contents[k], FileTokens[k]) : k \in DOMAIN FileTokens }

\* the files: up to MaxFileLines different lines, in any order
Files(contents) ==
  UNION { { f \in [1..n -> FileLines(contents)] :
              \A i \in 1..n, j \in 1..n : i # j => f[i] # f[j] } : n \in 0..MaxFileLines }

\* the comparator of matches.sort: date, then series id, then map number,
\* then match id
compareOrderToken(a, b) ==
  IF a.orderToken[1] # b.orderToken[1] THEN a.orderToken[1] - b.orderToken[1]
  ELSE IF a.orderToken[2] # b.orderToken[2] THEN a.orderToken[2] - b.orderToken[2]
  ELSE IF a.orderToken[3] # b.orderToken[3] THEN a.orderToken[3] - b.orderToken[3]
  ELSE a.orderToken[4] - b.orderToken[4]

\* the comparator of results.sort: config order, then delta threshold
compareResults(a, b) ==
  IF a.order # b.order THEN a.order - b.order
  ELSE a.delta_threshold - b.delta_threshold

\* matches.sort(...): Array.prototype.sort is stable, so element i lands
\* behind every element the comparator puts before it and every earlier
\* element the comparator ties with it
sortMatches(array) ==
  [k \in DOMAIN array |->
     array[CHOOSE i \in DOMAIN array :
             k = 1 + Cardinality({ j \in DOMAIN array :
                                     \/ compareOrderToken(array[j], array[i]) < 0
                                     \/ /\ compareOrderToken(array[j], array[i]) = 0
                                        /\ j < i })]]

\* results.sort(...), likewise
sortResults(array) ==
  [k \in DOMAIN array |->
     array[CHOOSE i \in DOMAIN array :
             k = 1 + Cardinality({ j \in DOMAIN array :
                                     \/ compareResults(array[j], array[i]) < 0
                                     \/ /\ compareResults(array[j], array[i]) = 0
                                        /\ j < i })]]

\* loadMatches of download_recent_matches.js: the lines that are not
\* skipped, pushed in the order of the file
loadMatches(file) ==
  LET kept == SelectSeq(file, LAMBDA l : loadMatchesSkip(l.line) = "")
  IN  [k \in DOMAIN kept |->
         [match |-> loadMatchesPush(kept[k].line), orderToken |-> kept[k].orderToken]]

\* parseMatches: the rows that are not skipped, sorted by their orderToken
parseMatches(file) ==
  LET kept == SelectSeq(file, LAMBDA l : parseMatchesSkip(l.line) = "")
  IN  sortMatches(
           [k \in DOMAIN kept |->
              [match |-> parseMatchesPush(kept[k].line), orderToken |-> kept[k].orderToken]])

\* loadMatches of run / execute / simulate: every row, sorted
deltaPctLoadMatches(file) ==
  sortMatches(
       [k \in DOMAIN file |-> [match |-> file[k].line, orderToken |-> file[k].orderToken]])

\* the configurations main iterates over
Generator == combos

\* the k-th run of `for (config of ...) for (threshold of DELTA_THRESHOLDS)`
mainConfigIndex(k) == ((k - 1) \div Len(SweepThresholds)) + 1

\* the thresholds taken from the last to the first
mainThresholdIndexDescending(k) == Len(SweepThresholds) - ((k - 1) % Len(SweepThresholds))

mainThresholdIndex(k) == ((k - 1) % Len(SweepThresholds)) + 1

\* the number of runs of main
MainRuns == Len(Generator) * Len(SweepThresholds)

\* the stats of runStrategy with stats.order = config.order
withOrder(stats, order) ==
  [strategy_group |-> stats.strategy_group, hero_filter |-> stats.hero_filter,
   odds_condition |-> stats.odds_condition, delta_threshold |-> stats.delta_threshold,
   bets |-> stats.bets, wins |-> stats.wins, win_pct |-> stats.win_pct,
   final_bank |-> stats.final_bank, max_drawdown |-> stats.max_drawdown,
   max_stake |-> stats.max_stake, max_step |-> stats.max_step, order |-> order]

InitFile(sim, gen, ths, list) ==
  /\ simulator = sim
  /\ combos = gen
  /\ config = gen[1]
  /\ thresholds = ths
  /\ maxBet = QInt(MAX_BET)
  /\ replay = "file"
  /\ matches = list
  /\ rows = <<>>
  /\ runs = <<InitRun>>
  /\ fibCache = <<1, 1>>
  /\ consumed = 0
  /\ phase = "loop"
  /\ summaries = <<>>
  /\ matrix = NoMatrix
  /\ ingested = <<>>

\* main has loaded the input file and starts its first run
InitMain ==
  \/ \E file \in Files(FileHawkLines) :
       InitFile("simulateStrategy", buildCombos, <<SweepThresholds[1]>>, loadMatches(file))
  \/ \E file \in Files(FileParseRows) :
       InitFile("runStrategy", STRATEGY_DEFS, <<SweepThresholds[1]>>, parseMatches(file))
  \/ \E sim \in DeltaPctSimulators, file \in Files(FileDeltaRows) :
       InitFile(sim, <<DeltaPctConfig>>, <<0>>, deltaPctLoadMatches(file))

\* the loop over the matches of the current run is over
RunReturned == ~(SomeRunning /\ consumed < Len(matches))

\* simulateStrategy / runStrategy returned: main pushes the row and goes on
\* to the next threshold, or the next configuration
MainPush ==
  /\ replay = "file"
  /\ simulator \in SweepSimulators
  /\ phase = "loop"
  /\ RunReturned
  /\ rows' = Append(rows, IF simulator = "runStrategy"
                            THEN withOrder(Summary(1), mainConfigIndex(Len(rows) + 1) - 1)
                            ELSE Summary(1))
  /\ IF Len(rows) + 1 < MainRuns
       THEN /\ config' = Generator[mainConfigIndex(Len(rows) + 2)]
            /\ thresholds' = <<SweepThresholds[mainThresholdIndex(Len(rows) + 2)]>>
            /\ runs' = <<InitRun>>
            /\ consumed' = 0
            /\ phase' = phase
       ELSE /\ phase' = "collected"
            /\ UNCHANGED <<config, thresholds, runs, consumed>>
  /\ UNCHANGED <<simulator, combos, maxBet, replay, matches, fibCache, summaries, matrix, ingested>>

\* every run is done: main sorts the results (runStrategy) and writes the file
MainWrite ==
  /\ replay = "file"
  /\ simulator \in SweepSimulators
  /\ phase = "collected"
  /\ rows' = IF simulator = "runStrategy" THEN sortResults(rows) ELSE rows
  /\ phase' = "written"
  /\ UNCHANGED <<simulator, combos, config, thresholds, maxBet, replay, matches, runs, fibCache,
                 consumed, summaries, matrix, ingested>>

\* run / execute / simulate left the loop: the one summary row is written
DeltaPctWrite ==
  /\ replay = "file"
  /\ simulator \in DeltaPctSimulators
  /\ phase = "loop"
  /\ RunReturned
  /\ rows' = <<Summary(1)>>
  /\ phase' = "written"
  /\ UNCHANGED <<simulator, combos, config, thresholds, maxBet, replay, matches, runs, fibCache,
                 consumed, summaries, matrix, ingested>>

(***************************************************************************)
(* main over a list of configurations one of which is misconfigured: its   *)
(* stake type or its hero filter is none of those the simulators know.     *)
(***************************************************************************)
\* a configuration of a stake type computeStake has no case for
UnknownStakeCombo ==
  Combo("Martingale", "martingale", QInt(100), Zero, 0, "none", "any")

\* a configuration of a hero filter, heroFilterSatisfied / shouldBet have no
\* case for
UnknownFilterCombo(base) == [base EXCEPT !.hero_filter = "3+3-"]

\* whether the simulators know the stake type and the hero filter
KnownStakeType(c) ==
  c.stake_type \in {"flat", "pct_bankroll", "fibonacci",
                    "flat_amount", "flat_percent", "bankroll_percent"}

KnownHeroFilter(c) == c.hero_filter \in Range(HeroFilters)

\* the lists: a misconfigured entry between two entries of the generator
MisconfiguredCombos(gen) ==
  { <<gen[1], UnknownStakeCombo, gen[4]>>,
    <<gen[1], UnknownFilterCombo(gen[7]), gen[4]>> }

\* main has loaded the input file and starts its first run
InitConfig ==
  \/ \E file \in Files(FileHawkLines), gen \in MisconfiguredCombos(buildCombos) :
       InitFile("simulateStrategy", gen, <<SweepThresholds[1]>>, loadMatches(file))
  \/ \E file \in Files(FileParseRows), gen \in MisconfiguredCombos(STRATEGY_DEFS) :
       InitFile("runStrategy", gen, <<SweepThresholds[1]>>, parseMatches(file))

NextConfig ==
  \/ SimulateStrategyIter
  \/ RunStrategyIter
  \/ MainPush
  \/ MainWrite

SpecConfig == InitConfig /\ [][NextConfig]_vars

(***************************************************************************)
(* The per-team counts of the loaders: computeTeamCounts / computeAdvantage *)
(* (download_recent_matches.js) and calcTeamStats (REMAP_SOLUTION.md) over *)
(* the win_rates matrix of cs.json.                                        *)
(***************************************************************************)
\* the most lineups one loader is given
MaxLineups == 3

\* hero indexes of the modelled win_rates matrices
HeroIdxs == 0..9

\* a cell of win_rates: null, or [advantage, ...] with cell[0] parsed
NullCell == [present |-> FALSE, adv |-> 0]
Cell(adv) == [present |-> TRUE, adv |-> adv]

\* the modelled matrices: win_rates[a][b] is hero a's advantage against b
WinRatesCell(kind, a, b) ==
  IF a = b THEN NullCell
  ELSE IF kind = "skew" THEN Cell(IF a < b THEN a + b ELSE 0 - (a + b))
  ELSE IF kind = "sparse"
    THEN (IF (a + b) % 3 = 0 THEN NullCell ELSE Cell(IF a < b THEN 2 ELSE 0 - 1))
  ELSE IF kind = "even" THEN Cell(0)
  ELSE Cell(a - 5)

WinRates(kind) == [a \in HeroIdxs |-> [b \in HeroIdxs |-> WinRatesCell(kind, a, b)]]

WinRatesKinds == {"skew", "sparse", "even", "rows"}

\* the lineups of the modelled matches: the hero indexes of team 1 and team 2
TeamLineups ==
  { << <<0, 1, 2, 3, 4>>, <<5, 6, 7, 8, 9>> >>,
    << <<5, 6, 7, 8, 9>>, <<0, 1, 2, 3, 4>> >>,
    << <<0, 2, 4, 6, 8>>, <<1, 3, 5, 7, 9>> >>,
    << <<0, 1, 2, 8, 9>>, <<3, 4, 5, 6, 7>> >> }

\* computeAdvantage(heroId, enemyIds, winRates): the cells read are
\* winRates[enemyId][heroId]
RECURSIVE computeAdvantage(_, _, _)
computeAdvantage(heroId, enemyIds, winRates) ==
  IF enemyIds = <<>> THEN 0
  ELSE LET cell == winRates[Head(enemyIds)][heroId]
       IN  (IF cell.present THEN cell.adv ELSE 0)
           + computeAdvantage(heroId, Tail(enemyIds), winRates)

\* computeTeamCounts(heroIds, enemyIds, heroData)
computeTeamCounts(heroIds, enemyIds, winRates) ==
  [pos |-> Cardinality({ k \in DOMAIN heroIds :
                           computeAdvantage(heroIds[k], enemyIds, winRates) > 0 }),
   neg |-> Cardinality({ k \in DOMAIN heroIds :
                           computeAdvantage(heroIds[k], enemyIds, winRates) < 0 })]

\* the advantage calcTeamStats sums for one hero: the cells read are
\* winRates[heroIdx][oppIdx]
RECURSIVE calcTeamStatsAdvantage(_, _, _)
calcTeamStatsAdvantage(heroIdx, opponentIdxs, winRates) ==
  IF opponentIdxs = <<>> THEN 0
  ELSE LET cell == winRates[heroIdx][Head(opponentIdxs)]
       IN  (IF cell.present THEN cell.adv ELSE 0)
           + calcTeamStatsAdvantage(heroIdx, Tail(opponentIdxs), winRates)

\* const winrate = heroesWr[heroIdx] || 50, heroesWr being the parsed numbers:
\* a win rate of 0 (and NaN) is replaced by 50
calcTeamStatsWinrate(heroIdx, heroesWr) ==
  IF heroesWr[heroIdx] = Zero \/ ~IsFinite(heroesWr[heroIdx]) THEN QInt(50)
  ELSE heroesWr[heroIdx]

\* the sum over the team of hero.winrate + hero.advantage
RECURSIVE calcTeamStatsScore(_, _, _, _)
calcTeamStatsScore(heroIdxs, opponentIdxs, heroesWr, winRates) ==
  IF heroIdxs = <<>> THEN Zero
  ELSE QAdd(QAdd(calcTeamStatsWinrate(Head(heroIdxs), heroesWr),
                 QInt(calcTeamStatsAdvantage(Head(heroIdxs), opponentIdxs, winRates))),
            calcTeamStatsScore(Tail(heroIdxs), opponentIdxs, heroesWr, winRates))

\* calcTeamStats(heroIdxs, opponentIdxs, heroesWr, winRates): score, pos, neg
calcTeamStats(heroIdxs, opponentIdxs, heroesWr, winRates) ==
  [score |-> calcTeamStatsScore(heroIdxs, opponentIdxs, heroesWr, winRates),
   pos |-> Cardinality({ k \in DOMAIN heroIdxs :
                           calcTeamStatsAdvantage(heroIdxs[k], opponentIdxs, winRates) > 0 }),
   neg |-> Cardinality({ k \in DOMAIN heroIdxs :
                           calcTeamStatsAdvantage(heroIdxs[k], opponentIdxs, winRates) < 0 })]

\* heroScore of loadMatrix: wr = parseFloat(heroes_wr[idx] ?? 50) and the
\* advantages of the hero's own row; every index has an entry in heroes_wr
heroScore(heroIdx, opponentIdxs, heroes_wr, win_rates) ==
  QAdd(heroes_wr[heroIdx],
       QInt(calcTeamStatsAdvantage(heroIdx, opponentIdxs, win_rates)))

\* team.reduce((sum, hero) => sum + heroScore(hero, opponents), 0)
RECURSIVE reduceHeroScore(_, _, _, _)
reduceHeroScore(team, opponents, heroes_wr, win_rates) ==
  IF team = <<>> THEN Zero
  ELSE QAdd(heroScore(Head(team), opponents, heroes_wr, win_rates),
            reduceHeroScore(Tail(team), opponents, heroes_wr, win_rates))

TeamCounters == {"computeTeamCounts", "calcTeamStats"}

TeamScorers == {"calcTeamStats", "heroScore"}

\* the per-hero (games, wins) the builder of cs.json had counted: no games
\* at all, or three games for every hero but the last with 0 to 3 wins
HeroStatsKinds == {"empty", "played"}

CsHeroStats(kind) ==
  [h \in HeroKeys |->
     IF kind = "empty" \/ h >= 9 THEN NoStats
     ELSE [games |-> 3, wins |-> h % 4]]

(***************************************************************************)
(* The output of the matrix builders: heroes_wr and win_rates.             *)
(***************************************************************************)
\* Number.prototype.toFixed(4): the sign, and the magnitude rounded to four
\* decimals (a tie goes to the larger magnitude)
toFixed4(x) ==
  IF x.n < 0 THEN Q(0 - QRound(QMul([n |-> 0 - x.n, d |-> x.d], QInt(10000))), 10000)
  ELSE Q(QRound(QMul(x, QInt(10000))), 10000)

\* a null entry of win_rates
Absent == [present |-> FALSE]

\* heroesWr of buildMatrix: '50.00' for a hero without games, else
\* (wins / games * 100).toFixed(2)
heroesWr(m) ==
  [h \in HeroKeys |->
     IF m.heroStats[h].games = 0 THEN QInt(50)
     ELSE toFixed2(Q(m.heroStats[h].wins * 100, m.heroStats[h].games))]

\* every cell filled in, a pair without games at 50% and advantage 0
winRatesDefaulted(m) ==
  [a \in HeroKeys |-> [b \in HeroKeys |->
     LET cell == m.pairStats[a][b]
         wr == IF cell.games = 0 THEN QInt(50) ELSE Q(cell.wins * 100, cell.games)
     IN  [present |-> TRUE, adv |-> toFixed4(QSub(wr, QInt(50))),
          wr |-> toFixed4(wr), games |-> cell.games]]]

\* winRates of buildMatrix and of the main of build_opendota_matrix.js: null
\* for a cell that is missing or has no games, else [adv, wr, games] with
\* wr = wins / games * 100 and adv = wr - 50, both toFixed(4)
winRates(m) ==
  [a \in HeroKeys |-> [b \in HeroKeys |->
     LET cell == m.pairStats[a][b]
     IN  IF cell.games = 0 THEN Absent
         ELSE [present |-> TRUE,
               adv |-> toFixed4(QSub(Q(cell.wins * 100, cell.games), QInt(50))),
               wr |-> toFixed4(Q(cell.wins * 100, cell.games)),
               games |-> cell.games]]]

\* the object the builder returns / writes
MatrixOutput(m) ==
  [heroesWr |-> heroesWr(m), winRates |-> winRates(m),
   processed |-> m.processed, skipped |-> m.skipped]

\* buildMatrix has read every raw match and returns the matrix
BuildMatrixReturn ==
  /\ simulator = "buildMatrix"
  /\ phase = "loop"
  /\ phase' = "done"
  /\ summaries' = <<MatrixOutput(matrix)>>
  /\ UNCHANGED <<simulator, combos, config, thresholds, maxBet, replay, matches, rows, runs,
                 fibCache, consumed, matrix, ingested>>

\* the stream of build_opendota_matrix.js has ended and main builds the
\* output from heroStats and pairStats
ProcessMatchEnd ==
  /\ simulator = "processMatch"
  /\ phase = "loop"
  /\ phase' = "done"
  /\ summaries' = <<MatrixOutput(matrix)>>
  /\ UNCHANGED <<simulator, combos, config, thresholds, maxBet, replay, matches, rows, runs,
                 fibCache, consumed, matrix, ingested>>

\* a loader has read cs.json and is about to read its first match
InitCounts ==
  \E sim \in TeamCounters \cup TeamScorers, kind \in WinRatesKinds,
     played \in HeroStatsKinds :
    /\ simulator = sim
    /\ combos = <<>>
    /\ config = DeltaPctConfig
    /\ thresholds = <<>>
    /\ maxBet = QInt(MAX_BET)
    /\ replay = "broad"
    /\ matches = <<>>
    /\ rows = <<>>
    /\ runs = <<>>
    /\ fibCache = <<1, 1>>
    /\ consumed = 0
    /\ phase = "loop"
    /\ summaries = <<>>
    /\ matrix = [winRates |-> WinRates(kind),
                 heroStats |-> CsHeroStats(played),
                 heroesWr |-> heroesWr([heroStats |-> CsHeroStats(played)])]
    /\ ingested = <<>>

\* loadMatches counts both teams of the next line
ComputeTeamCountsLine ==
  /\ simulator = "computeTeamCounts"
  /\ consumed < MaxLineups
  /\ \E l \in TeamLineups :
       rows' = Append(rows, [team1 |-> l[1], team2 |-> l[2],
                             team1Counts |-> computeTeamCounts(l[1], l[2], matrix.winRates),
                             team2Counts |-> computeTeamCounts(l[2], l[1], matrix.winRates)])
  /\ consumed' = consumed + 1
  /\ UNCHANGED <<simulator, combos, config, thresholds, maxBet, replay, matches, runs,
                 fibCache, phase, summaries, matrix, ingested>>

\* parseMatches counts both teams of the next row
CalcTeamStatsRow ==
  /\ simulator = "calcTeamStats"
  /\ consumed < MaxLineups
  /\ \E l \in TeamLineups :
       rows' = Append(rows, [team1 |-> l[1], team2 |-> l[2],
                             team1Counts |-> calcTeamStats(l[1], l[2], matrix.heroesWr, matrix.winRates),
                             team2Counts |-> calcTeamStats(l[2], l[1], matrix.heroesWr, matrix.winRates)])
  /\ consumed' = consumed + 1
  /\ UNCHANGED <<simulator, combos, config, thresholds, maxBet, replay, matches, runs,
                 fibCache, phase, summaries, matrix, ingested>>

\* the loop of a delta-percentage simulator scores both teams of the next row
HeroScoreRow ==
  /\ simulator = "heroScore"
  /\ consumed < MaxLineups
  /\ \E l \in TeamLineups :
       rows' = Append(rows, [team1 |-> l[1], team2 |-> l[2],
                             score1 |-> reduceHeroScore(l[1], l[2], matrix.heroesWr,
                                                        matrix.winRates),
                             score2 |-> reduceHeroScore(l[2], l[1], matrix.heroesWr,
                                                        matrix.winRates)])
  /\ consumed' = consumed + 1
  /\ UNCHANGED <<simulator, combos, config, thresholds, maxBet, replay, matches, runs,
                 fibCache, phase, summaries, matrix, ingested>>

NextCounts ==
  \/ ComputeTeamCountsLine
  \/ CalcTeamStatsRow
  \/ HeroScoreRow

SpecCounts == InitCounts /\ [][NextCounts]_vars

Next ==
  \/ SimulateStrategyIter
  \/ RunStrategyIter
  \/ DeltaPctIter
  \/ Finish

NextSweep ==
  \/ SimulateStrategyIter
  \/ RunStrategyIter
  \/ Finish

NextBuild ==
  \/ BuildMatrixIter
  \/ ProcessMatchData
  \/ BuildMatrixReturn
  \/ ProcessMatchEnd

NextMain ==
  \/ SimulateStrategyIter
  \/ RunStrategyIter
  \/ DeltaPctIter
  \/ MainPush
  \/ MainWrite
  \/ DeltaPctWrite

Spec == Init /\ [][Next]_vars

SpecMain == InitMain /\ [][NextMain]_vars

SpecSweep == InitSweep /\ [][NextSweep]_vars

SpecMatrix == InitBuild /\ [][NextBuild]_vars

\* a call of a simulator runs to its end: the loop is synchronous, nothing
\* suspends it between two iterations or before the return
SpecTermination == Init /\ [][Next]_vars /\ WF_vars(Next)

(***************************************************************************)
(* Properties.                                                             *)
(***************************************************************************)
IsFibonacci == config.stake_type = "fibonacci"

\* the cap of the run: opts.maxBet when positive (execute), MAX_BET for
\* every other simulator, none for execute with --max-bet 0
HasCap == simulator # "execute" \/ QLt(Zero, maxBet)

\* C1: in every simulation run, after any prefix of the corpus, the bankroll
\* is >= 0; a run that went bust holds exactly 0, and so does its summary.
C1_BankrollNeverNegative ==
  \A i \in DOMAIN runs :
    /\ QLe(Zero, runs[i].bank)
    /\ runs[i].status = "busted" => runs[i].bank = Zero
    /\ phase = "done" =>
         /\ summaries[i].final_bank >= 0
         /\ runs[i].status = "busted" => summaries[i].final_bank = 0

\* a simulateStrategy run lost its whole bankroll, left the loop and
\* returned its summary
C1_Witness ==
  /\ simulator = "simulateStrategy"
  /\ phase = "done"
  /\ \E i \in DOMAIN runs :
       /\ runs[i].status = "busted"
       /\ runs[i].bets >= 10
       /\ runs[i].last.kind = "break"

\* C2: every bet placed, in any run and under any staking policy, has
\* 0 < stake <= min(bankroll before the bet, max-bet cap).
C2_StakeWithinBankAndCap ==
  \A i \in DOMAIN runs :
    runs[i].last.kind = "bet" =>
      /\ QLt(Zero, runs[i].last.stake)
      /\ QLe(runs[i].last.stake, runs[i].last.bankBefore)
      /\ HasCap => QLe(runs[i].last.stake, maxBet)

\* execute staked exactly its --max-bet cap, below what the delta asked for
C2_Witness ==
  /\ simulator = "execute"
  /\ maxBet = QInt(150)
  /\ \E i \in DOMAIN runs :
       /\ runs[i].last.kind = "bet"
       /\ runs[i].last.stake = maxBet
       /\ QLt(maxBet, runs[i].last.bankBefore)

\* the run at thresholds[i] can still stake: it has bankroll left, and under
\* runStrategy's bankroll percentage the rounded stake is not 0
StillStaking(i) ==
  /\ QLt(Zero, runs[i].bank)
  /\ simulator = "runStrategy" /\ config.stake_type = "bankroll_percent" =>
       QRound(QMul(runs[i].bank, config.percent)) > 0

\* C3 as stated: for one configuration and one corpus, and thresholds
\* T1 < T2, the run at T2 places no more bets than the run at T1.
C3_ThresholdMonotonicity ==
  Len(runs) = 2 => runs[2].bets <= runs[1].bets

\* C3 amended: for one configuration and one corpus, and thresholds T1 < T2,
\* the run at T2 has placed no more bets than the run at T1 as long as the
\* run at T1 can still stake.
C3_MonotoneWhileStaking ==
  Len(runs) = 2 /\ StillStaking(1) => runs[2].bets <= runs[1].bets

\* both runs have bet, the run at the lower threshold strictly more often
C3_Witness ==
  /\ Len(runs) = 2
  /\ StillStaking(1)
  /\ runs[2].bets > 0
  /\ runs[1].bets > runs[2].bets
  /\ runs[2].last.kind = "skip"

\* C4: after any sequence of ingested matches, and after every single one,
\* games[i][j] = games[j][i] for every pair of heroes.
C4_GamesSymmetric ==
  simulator \in MatrixBuilders =>
    \A a \in HeroKeys, b \in HeroKeys :
      matrix.pairStats[a][b].games = matrix.pairStats[b][a].games

\* two matches were ingested and some pair of heroes met in both
C4_Witness ==
  /\ simulator \in MatrixBuilders
  /\ consumed = 2
  /\ \E a \in HeroKeys, b \in HeroKeys :
       /\ a # b
       /\ matrix.pairStats[a][b].games = 2
       /\ matrix.pairStats[a][b].wins = 1

RECURSIVE SumOver(_, _)
SumOver(f, S) ==
  IF S = {} THEN 0
  ELSE LET x == CHOOSE y \in S : TRUE
       IN  f[x] + SumOver(f, S \ {x})

\* how often hero key h occurs on a side
Occurrences(side, h) == Cardinality({ k \in DOMAIN side : side[k] = h })

\* the matches the running builder aggregates, and the keys it files the
\* heroes of a side under
Aggregated(match) ==
  IF simulator = "buildMatrix"
    THEN normalizeHeroIds(match.radiant) # Null /\ normalizeHeroIds(match.dire) # Null
    ELSE Len(match.radiant) + Len(match.dire) = 10

SideKeys(side) ==
  IF simulator = "buildMatrix" THEN [k \in DOMAIN side |-> heroMap(side[k])] ELSE side

\* the aggregates as sums over the collection of ingested matches
CollectionHeroStats(h) ==
  LET counted == { m \in MatrixRecords : Aggregated(m) }
      R(m) == Occurrences(SideKeys(m.radiant), h)
      D(m) == Occurrences(SideKeys(m.dire), h)
  IN  [games |-> SumOver([m \in counted |-> ingested[m] * (R(m) + D(m))], counted),
       wins |-> SumOver([m \in counted |->
                           ingested[m] * (IF m.radiantWin THEN R(m) ELSE D(m))], counted)]

CollectionPairStats(a, b) ==
  LET counted == { m \in MatrixRecords : Aggregated(m) }
      AB(m) == Occurrences(SideKeys(m.radiant), a) * Occurrences(SideKeys(m.dire), b)
      BA(m) == Occurrences(SideKeys(m.radiant), b) * Occurrences(SideKeys(m.dire), a)
  IN  [games |-> SumOver([m \in counted |-> ingested[m] * (AB(m) + BA(m))], counted),
       wins |-> SumOver([m \in counted |->
                           ingested[m] * (IF m.radiantWin THEN AB(m) ELSE BA(m))], counted)]

C6_StepState ==
  \A i \in DOMAIN runs :
    IsFibonacci =>
      /\ runs[i].fibStep >= 0
      /\ runs[i].bets = 0 => runs[i].fibStep = 0

\* C6, in every step: a losing bet moves the step to step + 1, a winning bet
\* to max(0, step - 2), and a match without a bet leaves it unchanged
C6_StepAction ==
  \A i \in DOMAIN runs :
    IsFibonacci =>
      LET before == runs[i]
          after == runs'[i]
      IN  IF after.bets = before.bets THEN after.fibStep = before.fibStep
          ELSE IF after.wins > before.wins
            THEN after.fibStep = (IF before.fibStep - 2 > 0 THEN before.fibStep - 2 ELSE 0)
          ELSE after.fibStep = before.fibStep + 1

\* C6: under a Fibonacci policy the step counter starts at 0, becomes step+1
\* after a losing bet and max(0, step-2) after a winning bet, is unchanged by
\* a skipped match, and is never negative.
C6_FibonacciStep == []C6_StepState /\ [][C6_StepAction]_vars

\* a bet won at step 1 put the step back to 0, after a losing first bet
C6_Witness ==
  /\ IsFibonacci
  /\ \E i \in DOMAIN runs :
       /\ runs[i].last.kind = "bet"
       /\ runs[i].last.won
       /\ runs[i].last.stepBefore = 1
       /\ runs[i].fibStep = 0
       /\ runs[i].bets = 2

\* the runs of the scenario of C7: flat $100, threshold 0, any odds
IsFlat100At0(i) ==
  /\ simulator \in SweepSimulators
  /\ config.strategy_group = "Flat100"
  /\ config.odds_condition = "any"
  /\ thresholds[i] = 0

\* C7: starting at 1000 with max bet 10000, flat $100 and threshold 0, a bet
\* won at odds 2.0, a bet lost at odds 1.8 and a bet won at odds 3.0 take the
\* bankroll through 1000, 1100, 1000, 1200, and the summary is final_bank
\* 1200, bets 3, wins 2, win_pct 67, max_drawdown 100.
C7_FlatScenario ==
  \A i \in DOMAIN runs :
    IsFlat100At0(i) /\ runs[i].last.kind = "bet" =>
      LET r == runs[i]
      IN  /\ r.bets = 1 /\ r.last.won /\ r.last.odds = Odds2 =>
                r.last.bankBefore = QInt(1000) /\ r.bank = QInt(1100)
          /\ r.bets = 2 /\ ~r.last.won /\ r.last.odds = Odds18
               /\ r.last.bankBefore = QInt(1100) =>
                r.bank = QInt(1000) /\ r.maxDrawdown = QInt(100)
          /\ r.bets = 3 /\ r.wins = 2 /\ r.last.won /\ r.last.odds = Odds3
               /\ r.last.bankBefore = QInt(1000) /\ r.maxDrawdown = QInt(100) =>
                /\ r.bank = QInt(1200)
                /\ phase = "done" =>
                     /\ summaries[i].final_bank = 1200
                     /\ summaries[i].bets = 3
                     /\ summaries[i].wins = 2
                     /\ summaries[i].win_pct = QInt(67)
                     /\ summaries[i].max_drawdown = 100

\* the three bets of the scenario were placed and the summary returned
C7_Witness ==
  /\ phase = "done"
  /\ consumed = 3
  /\ \E i \in DOMAIN runs :
       /\ IsFlat100At0(i)
       /\ runs[i].bets = 3
       /\ runs[i].wins = 2
       /\ runs[i].last.kind = "bet"
       /\ runs[i].last.won
       /\ runs[i].last.odds = Odds3
       /\ runs[i].last.bankBefore = QInt(1000)
       /\ runs[i].maxDrawdown = QInt(100)
       /\ summaries[i].final_bank = 1200

\* the stakes of the scenario of C8
FibonacciStakes == <<1, 1, 2, 3, 5>>

\* C8: under Fibonacci with unit 1, four losing bets in a row and then a
\* winning bet are staked 1, 1, 2, 3, 5, the step before each bet being
\* 0, 1, 2, 3, 4 and the step after the win being 2.
C8_FibonacciScenario ==
  \A i \in DOMAIN runs :
    IsFibonacci /\ config.unit = 1 /\ runs[i].last.kind = "bet" =>
      LET r == runs[i]
      IN  /\ \A k \in 1..4 :
                r.bets = k /\ r.wins = 0 =>
                  /\ r.last.stake = QInt(FibonacciStakes[k])
                  /\ r.last.stepBefore = k - 1
                  /\ r.fibStep = k
          /\ r.bets = 5 /\ r.wins = 1 /\ r.last.won =>
                /\ r.last.stake = QInt(FibonacciStakes[5])
                /\ r.last.stepBefore = 4
                /\ r.fibStep = 2

\* the fifth bet of the scenario was won
C8_Witness ==
  /\ IsFibonacci
  /\ config.unit = 1
  /\ \E i \in DOMAIN runs :
       /\ runs[i].bets = 5
       /\ runs[i].wins = 1
       /\ runs[i].last.kind = "bet"
       /\ runs[i].last.won
       /\ runs[i].last.stake = QInt(5)
       /\ runs[i].fibStep = 2

\* a match with a side that does not have exactly five heroes
Uneven(match) == Len(match.radiant) # 5 \/ Len(match.dire) # 5

\* C9: a match in which either side does not have exactly 5 heroes adds
\* nothing to the matrix aggregates and is counted as a skip: as long as
\* only such matches were ingested the aggregates are empty and every
\* match is counted as skipped.
C9_UnevenMatchSkipped ==
  /\ simulator \in MatrixBuilders
  /\ \A m \in MatrixRecords : ingested[m] > 0 => Uneven(m)
  => /\ \A a \in HeroKeys :
          /\ matrix.heroStats[a].games = 0
          /\ \A b \in HeroKeys : matrix.pairStats[a][b].games = 0
     /\ matrix.skipped = consumed

\* C10: a match with a hero name the hero index does not resolve is skipped
\* and counted, and the run goes on: no iteration raises an exception and
\* the process does not end on one.
C10_UnresolvedHeroSkipped ==
  /\ phase # "crashed"
  /\ \A i \in DOMAIN runs : runs[i].last.kind # "throw" /\ runs[i].status # "aborted"

\* a match with a hero id that the hero map does not hold
Unmappable(match) ==
  \/ \E k \in DOMAIN match.radiant : heroMap(match.radiant[k]) < 0
  \/ \E k \in DOMAIN match.dire : heroMap(match.dire[k]) < 0

\* the step ingests the raw match m
Ingests(m) == ingested'[m] = ingested[m] + 1

C11_UnmappableStep ==
  \A m \in MatrixRecords :
    Ingests(m) /\ Unmappable(m) =>
      /\ matrix'.heroStats = matrix.heroStats
      /\ matrix'.pairStats = matrix.pairStats
      /\ matrix'.processed = matrix.processed
      /\ matrix'.skipped = matrix.skipped + 1

\* C11: in matrix building, a match with any hero id that cannot be mapped
\* leaves every per-hero counter and every per-pair counter unchanged; only
\* the skipped count changes, by one.
C11_UnmappableMatchVoided == [][C11_UnmappableStep]_vars

\* odds that are not finite or not above 1
BadOdds(o) == ~IsFinite(o) \/ QLe(o, Odds1)

\* the loaders of the sweeps drop and count every line with bad odds
C12_LoadersSkip ==
  /\ \A l \in HawkLines :
       BadOdds(l.odds1) \/ BadOdds(l.odds2) => loadMatchesSkip(l) \notin {"", "blank"}
  /\ \A r \in ParseRows :
       BadOdds(r.odds1) \/ BadOdds(r.odds2) => parseMatchesSkip(r) \notin {"", "blank"}

\* a step of run / execute / simulate on a row with bad odds on either side
\* places no bet and counts a skip
C12_BadOddsStep ==
  \A row \in DeltaRows, i \in DOMAIN runs :
    /\ simulator \in DeltaPctSimulators
    /\ consumed' = consumed + 1
    /\ BadOdds(row.odds1) \/ BadOdds(row.odds2)
    /\ runs[i].status = "running"
    /\ runs'[i] = deltaPctStep(simulator, runs[i], row, maxBet)
    => /\ runs'[i].bets = runs[i].bets
       /\ runs'[i].bank = runs[i].bank
       /\ runs'[i].skipped = runs[i].skipped + 1

\* C12: a match whose team1 odds or team2 odds is non-finite or <= 1 is never
\* bet on by any simulator and is counted as skipped, whichever of the two
\* sides is delta-favored.
C12_BadOddsNeverBet == []C12_LoadersSkip /\ [][C12_BadOddsStep]_vars

\* the five staking policies, in the order the specification lists them
StakingPolicies == <<"flat100", "pct5", "flat5", "fib1", "fib5">>

OddsConditionSet == {"any", "favorite", "underdog"}

\* the staking policy a generated configuration stands for
PolicyOf(c) ==
  IF c.stake_type \in {"flat", "flat_amount"} /\ c.flat_amount = QInt(100) THEN "flat100"
  ELSE IF c.stake_type \in {"pct_bankroll", "bankroll_percent"} /\ c.percent = Percent5
    THEN "pct5"
  ELSE IF c.stake_type = "flat" /\ c.flat_amount = QMul(QInt(INITIAL_BANK), Percent5)
    THEN "flat5"
  ELSE IF c.stake_type = "flat_percent" /\ c.percent = Percent5 THEN "flat5"
  ELSE IF c.stake_type = "fibonacci" /\ c.unit = 1 THEN "fib1"
  ELSE IF c.stake_type = "fibonacci" /\ c.unit = 5 THEN "fib5"
  ELSE "other"

ComboKey(c) == <<PolicyOf(c), c.hero_filter, c.odds_condition>>

EmittedOnce(gen) ==
  \A i \in DOMAIN gen, j \in DOMAIN gen : i # j => ComboKey(gen[i]) # ComboKey(gen[j])

EmittedKeys(gen) == { ComboKey(gen[i]) : i \in DOMAIN gen }

\* the (policy, hero filter) pairs the generators push
EmittedPairs ==
  { <<"flat100", "none">>, <<"flat100", "4+4-">>, <<"flat100", "5+5-">>,
    <<"pct5", "none">>,
    <<"flat5", "4+4-">>, <<"flat5", "5+5-">>,
    <<"fib1", "none">>, <<"fib1", "4+4-">>, <<"fib1", "5+5-">>,
    <<"fib5", "none">>, <<"fib5", "4+4-">>, <<"fib5", "5+5-">> }

\* a generator emits the full cross-product, every combination once
FullCrossProduct(gen) ==
  /\ EmittedOnce(gen)
  /\ EmittedKeys(gen) = Range(StakingPolicies) \X Range(HeroFilters) \X OddsConditionSet

\* a generator emits the three odds conditions under each of EmittedPairs,
\* every combination once
EmittedCombinations(gen) ==
  /\ Len(gen) = 36
  /\ EmittedOnce(gen)
  /\ EmittedKeys(gen) = { <<p[1], p[2], o>> : p \in EmittedPairs, o \in OddsConditionSet }

buildCombosFull == FullCrossProduct(buildCombos)
strategyDefsFull == FullCrossProduct(STRATEGY_DEFS)
buildCombosEmitted == EmittedCombinations(buildCombos)
strategyDefsEmitted == EmittedCombinations(STRATEGY_DEFS)

\* C13 as stated: the strategy generator emits the full cross-product of the
\* five staking policies, the three hero filters and the three odds
\* conditions: every combination appears exactly once and none is missing.
C13_FullCrossProduct ==
  simulator \in SweepSimulators =>
    /\ IF simulator = "simulateStrategy" THEN buildCombosFull ELSE strategyDefsFull
    /\ config \in SweepConfigs(simulator)

\* C13 amended: the strategy generator emits 36 configurations, each once:
\* the three odds conditions under each of 12 (policy, hero filter) pairs,
\* which are flat $100, Fibonacci 1 and Fibonacci 5 with every hero filter,
\* 5% of current bankroll with no hero filter only, and fixed 5% of the
\* starting bankroll with 4+4- and 5+5- only; every sweep run is given one
\* of them.
C13_EmittedCombinations ==
  simulator \in SweepSimulators =>
    /\ IF simulator = "simulateStrategy" THEN buildCombosEmitted ELSE strategyDefsEmitted
    /\ config \in SweepConfigs(simulator)

\* a run was given the last configuration buildCombos emits (Fibonacci 5,
\* 5+5-, favorite) and placed a bet under it
C13_Witness ==
  /\ simulator = "simulateStrategy"
  /\ config = buildCombos[36]
  /\ ComboKey(config) = <<"fib5", "5+5-", "favorite">>
  /\ \E i \in DOMAIN runs : runs[i].last.kind = "bet"

\* the position of x in the sequence seq
IndexOf(seq, x) == CHOOSE i \in DOMAIN seq : seq[i] = x

\* the rank of a configuration when policies order first, hero filters
\* second and the odds conditions any, favorite, underdog third
PolicyFirstRank(c) ==
  9 * (IndexOf(StakingPolicies, PolicyOf(c)) - 1)
  + 3 * (IndexOf(HeroFilters, c.hero_filter) - 1)
  + IndexOf(<<"any", "favorite", "underdog">>, c.odds_condition)

PolicyFirstOrder(gen) ==
  \A i \in DOMAIN gen, j \in DOMAIN gen :
    i < j => PolicyFirstRank(gen[i]) < PolicyFirstRank(gen[j])

\* the (policy, hero filter) groups in the order the generators push them
EmittedGroups ==
  << <<"flat100", "none">>, <<"pct5", "none">>,
     <<"flat100", "4+4-">>, <<"flat5", "4+4-">>,
     <<"flat100", "5+5-">>, <<"flat5", "5+5-">>,
     <<"fib1", "none">>, <<"fib1", "4+4-">>, <<"fib1", "5+5-">>,
     <<"fib5", "none">>, <<"fib5", "4+4-">>, <<"fib5", "5+5-">> >>

EmittedOrder(gen) ==
  /\ Len(gen) = 3 * Len(EmittedGroups)
  /\ \A g \in DOMAIN EmittedGroups, o \in 1..3 :
       ComboKey(gen[3 * (g - 1) + o]) =
         <<EmittedGroups[g][1], EmittedGroups[g][2], <<"any", "underdog", "favorite">>[o]>>

buildCombosPolicyFirst == PolicyFirstOrder(buildCombos)
strategyDefsPolicyFirst == PolicyFirstOrder(STRATEGY_DEFS)
buildCombosOrder == EmittedOrder(buildCombos)
strategyDefsOrder == EmittedOrder(STRATEGY_DEFS)

\* C14 as stated: the generated strategy configurations are ordered by
\* staking policy first (flat $100, 5% of current bankroll, fixed 5% of
\* starting bankroll, Fibonacci 1, Fibonacci 5), then by hero filter (none,
\* 4+4-, 5+5-), then by odds condition (any, favorite, underdog), the same
\* on every call.
C14_PolicyFirstOrder ==
  simulator \in SweepSimulators =>
    /\ IF simulator = "simulateStrategy" THEN buildCombosPolicyFirst
                                         ELSE strategyDefsPolicyFirst
    /\ \E k \in 1..36 : config = (IF simulator = "simulateStrategy"
                                    THEN buildCombos ELSE STRATEGY_DEFS)[k]

\* C14 amended: the generated configurations are, on every call, in the
\* order flat $100 / none, 5% of current bankroll / none, flat $100 / 4+4-,
\* fixed 5% / 4+4-, flat $100 / 5+5-, fixed 5% / 5+5-, Fibonacci 1 with none,
\* 4+4-, 5+5-, Fibonacci 5 with none, 4+4-, 5+5-, and within each of these
\* groups in the order any, underdog, favorite.
C14_EmittedOrder ==
  simulator \in SweepSimulators =>
    /\ IF simulator = "simulateStrategy" THEN buildCombosOrder ELSE strategyDefsOrder
    /\ \E k \in 1..36 : config = (IF simulator = "simulateStrategy"
                                    THEN buildCombos ELSE STRATEGY_DEFS)[k]

\* a run was given the fifth configuration of STRATEGY_DEFS (5% of current
\* bankroll, none, underdog), which follows flat $100 / none and precedes
\* flat $100 / 4+4-, and placed a bet under it
C14_Witness ==
  /\ simulator = "runStrategy"
  /\ config = STRATEGY_DEFS[5]
  /\ ComboKey(config) = <<"pct5", "none", "underdog">>
  /\ ComboKey(STRATEGY_DEFS[7]) = <<"flat100", "4+4-", "any">>
  /\ \E i \in DOMAIN runs : runs[i].last.kind = "bet"

\* the row is the summary of a run of configuration c at threshold t
RowOf(row, c, t) ==
  /\ row.strategy_group = c.strategy_group
  /\ row.hero_filter = c.hero_filter
  /\ row.odds_condition = c.odds_condition
  /\ row.delta_threshold = t

\* C15, in every state: the rows collected so far are those of the first
\* (configuration, threshold) pairs, configurations in generator order and
\* thresholds ascending within one configuration; once the file is written
\* there is one row for every pair
C15_RowsState ==
  simulator \in SweepSimulators /\ replay = "file" =>
    /\ \A c \in DOMAIN Generator, t \in DOMAIN SweepThresholds :
         LET k == (c - 1) * Len(SweepThresholds) + t
         IN  /\ k <= Len(rows) => RowOf(rows[k], Generator[c], SweepThresholds[t])
             /\ t > 1 => SweepThresholds[t - 1] < SweepThresholds[t]
    /\ Len(rows) <= Len(Generator) * Len(SweepThresholds)
    /\ phase = "written" => Len(rows) = Len(Generator) * Len(SweepThresholds)

\* C15, in every step: the rows already collected stay as they are, at most
\* one row is added, and it is the summary of the current run, whose loop
\* is over (the corpus is exhausted or the run left the loop)
C15_RowsStep ==
  simulator \in SweepSimulators /\ replay = "file" =>
    /\ \A k \in DOMAIN rows : k \in DOMAIN rows' /\ rows'[k] = rows[k]
    /\ Len(rows') <= Len(rows) + 1
    /\ Len(rows') = Len(rows) + 1 =>
         /\ runs[1].status # "running" \/ consumed = Len(matches)
         /\ RowOf(rows'[Len(rows')], config, thresholds[1])
         /\ rows'[Len(rows')].bets = runs[1].bets
         /\ rows'[Len(rows')].wins = runs[1].wins

\* C15: a sweep emits exactly one summary row per (strategy configuration,
\* threshold) pair, in generator order of configurations and, within one
\* configuration, in ascending threshold order; a row is appended only after
\* its run has finished.
C15_OneRowPerRun == []C15_RowsState /\ [][C15_RowsStep]_vars

\* runStrategy's main has sorted and written all of its rows, the last run
\* having placed bets at the higher threshold
C15_Witness ==
  /\ simulator = "runStrategy"
  /\ replay = "file"
  /\ phase = "written"
  /\ Len(rows) = 72
  /\ rows[2].bets > 0
  /\ rows[1].bets > rows[2].bets
  /\ rows[72].delta_threshold = 10

\* the lines loadMatches pushes, the rows parseMatches pushes and the rows
\* of the delta-percentage simulators, each with the odds of its
\* delta-favored side and of the other side as the file gives them
SidesOfHawkLines ==
  { [match |-> loadMatchesPush(l),
     favored |-> IF l.deltaFavTeam = l.team1 THEN {l.odds1} ELSE {l.odds2},
     other |-> IF l.deltaFavTeam = l.team1 THEN l.odds2 ELSE l.odds1] :
      l \in { x \in HawkLines : loadMatchesSkip(x) = "" } }

SidesOfParseRows ==
  { [match |-> parseMatchesPush(r),
     favored |-> IF QLt(r.team2Stats.score, r.team1Stats.score) THEN {r.odds1}
                 ELSE IF QLt(r.team1Stats.score, r.team2Stats.score) THEN {r.odds2}
                 ELSE {r.odds1, r.odds2},
     other |-> IF QLt(r.team1Stats.score, r.team2Stats.score) THEN r.odds1 ELSE r.odds2] :
      r \in { x \in ParseRows : parseMatchesSkip(x) = "" } }

SidesOfDeltaRows ==
  { [match |-> r,
     favored |-> IF QLt(Zero, r.delta) THEN {r.odds1} ELSE {r.odds2},
     other |-> IF QLt(Zero, r.delta) THEN r.odds2 ELSE r.odds1] : r \in DeltaRows }

\* the iteration of run i on the match of p
StepOn(i, p) ==
  IF simulator = "simulateStrategy"
    THEN simulateStrategy(runs[i], p.match, config, thresholds[i], fibCache)
  ELSE IF simulator = "runStrategy"
    THEN runStrategy(runs[i], p.match, config, thresholds[i], fibCache)
  ELSE deltaPctStep(simulator, runs[i], p.match, maxBet)

DeepSidesOfHawkLines == { p \in SidesOfHawkLines : p.match \in DeepHawkMatches }

DeepSidesOfParseRows == { p \in SidesOfParseRows : p.match \in DeepParsedMatches }

\* the matches the iteration can have been given
SidesOfMatches ==
  IF simulator = "simulateStrategy"
    THEN (IF replay = "deep" THEN DeepSidesOfHawkLines ELSE SidesOfHawkLines)
  ELSE IF simulator = "runStrategy"
    THEN (IF replay \in {"deep", "streak"} THEN DeepSidesOfParseRows ELSE SidesOfParseRows)
  ELSE SidesOfDeltaRows

\* the odds a bet is settled at are those of the delta-favored side of p,
\* strictly lower than the other side's under 'favorite' and strictly higher
\* under 'underdog'
SettledOnFavoredSide(odds, p) ==
  /\ odds \in p.favored
  /\ config.odds_condition = "favorite" => QLt(odds, p.other)
  /\ config.odds_condition = "underdog" => QLt(p.other, odds)

\* C16, in every step that places a bet: whatever match the bet was placed
\* on, the bet is settled as SettledOnFavoredSide says
C16_BetStep ==
  \A i \in DOMAIN runs :
    simulator \notin MatrixBuilders /\ runs'[i].bets = runs[i].bets + 1 =>
      \A p \in SidesOfMatches :
        \/ SettledOnFavoredSide(runs'[i].last.odds, p)
        \/ runs'[i] # StepOn(i, p)

\* C16: the odds used to settle a bet are always the delta-favored side's
\* odds; with odds condition 'favorite' (resp. 'underdog') a bet is placed
\* only when the delta-favored side's odds are strictly lower (resp. strictly
\* higher) than the opponent's, so a match with equal odds on both sides is
\* bet only under 'any', and a delta-favored market underdog is never bet
\* under 'favorite'.
C16_FavoredSideOdds == [][C16_BetStep]_vars

\* under 'underdog' a bet was won on a delta-favored side priced at 3.0
\* against 2.0
C16_Witness ==
  /\ simulator \in SweepSimulators
  /\ config.odds_condition = "underdog"
  /\ \E i \in DOMAIN runs :
       /\ runs[i].last.kind = "bet"
       /\ runs[i].last.won
       /\ runs[i].last.odds = Odds3

\* the bankroll a bet leaves when the payout is floor(stake x odds)
FlooredSettlement(bet) ==
  QAdd(QSub(bet.bankBefore, bet.stake),
       IF bet.won THEN QInt(QFloor(QMul(bet.stake, bet.odds))) ELSE Zero)

\* C17: every placed stake is an integer (floored before it is debited) and
\* every payout is floor(stake x odds), so the bankroll is an integer after
\* every bet of every run, under every staking policy.
C17_IntegerStakesAndPayouts ==
  \A i \in DOMAIN runs :
    runs[i].last.kind = "bet" =>
      /\ QIsInt(runs[i].last.stake)
      /\ QIsInt(runs[i].bank)
      /\ runs[i].bank = FlooredSettlement(runs[i].last)

\* C18: the win_pct of every summary is an integer in 0..100 equal to
\* wins/bets x 100 rounded to the nearest integer, and is 0 when bets == 0.
\* (The object simulate returns has no win_pct.)
C18_WinPctRoundedInteger ==
  phase = "done" /\ simulator # "simulate" =>
    \A i \in DOMAIN summaries :
      LET row == summaries[i]
      IN  /\ QIsInt(row.win_pct)
          /\ QLe(Zero, row.win_pct) /\ QLe(row.win_pct, QInt(100))
          /\ row.bets = 0 => row.win_pct = Zero
          /\ row.bets > 0 => row.win_pct = QInt(QRound(Q(row.wins * 100, row.bets)))

\* the counters of a run that Busted freezes
Frozen(run) ==
  <<run.bank, run.peak, run.maxDrawdown, run.bets, run.wins, run.fibStep,
    run.maxStake, run.maxStepReached>>

\* C19, in every step: a run whose bankroll is 0 places no bet and keeps its
\* bankroll, peak, max drawdown, bets, wins, Fibonacci step, max stake and
\* max step
C19_BustedStep ==
  \A i \in DOMAIN runs :
    simulator \notin MatrixBuilders /\ QLe(runs[i].bank, Zero) =>
      /\ Frozen(runs'[i]) = Frozen(runs[i])
      /\ consumed' # consumed /\ runs[i].status = "running" => runs'[i].last.kind = "break"

\* C19: Busted is absorbing: once a run's bankroll has reached 0, no later
\* match of the corpus places a bet or changes the bankroll, peak, max
\* drawdown, bets, wins, Fibonacci step, max stake or max step of that run.
C19_BustedAbsorbing == [][C19_BustedStep]_vars

\* runStrategy lost ten flat bets, was given one more match and left the
\* loop on it
C19_Witness ==
  /\ simulator = "runStrategy"
  /\ \E i \in DOMAIN runs :
       /\ runs[i].bank = Zero
       /\ runs[i].bets = 10
       /\ runs[i].wins = 0
       /\ consumed > runs[i].bets
       /\ runs[i].last.kind = "break"
       /\ runs[i].status = "busted"

\* s comes before t in the order of (date, series id, map number, match id)
Precedes(s, t) ==
  \E k \in 1..4 : s[k] < t[k] /\ \A h \in 1..(k - 1) : s[h] = t[h]

\* C20: every simulator applies its bets in ascending order of (date, series
\* id, map number, match id), whatever order the rows have in the input
\* file: if match a precedes match b in that order, a is evaluated before b.
C20_EvaluatedInDateOrder ==
  replay = "file" =>
    \A a \in DOMAIN matches, b \in DOMAIN matches :
      b <= consumed /\ Precedes(matches[a].orderToken, matches[b].orderToken) => a < b

\* one iteration of the loop of a sweep simulator, and the cache it leaves
SweepStep(run, match, cfg, threshold, cache) ==
  IF simulator = "simulateStrategy"
    THEN simulateStrategy(run, match, cfg, threshold, cache)
    ELSE runStrategy(run, match, cfg, threshold, cache)

SweepStepCache(run, match, cfg, threshold, cache) ==
  IF simulator = "simulateStrategy"
    THEN simulateStrategyCache(run, match, cfg, threshold, cache)
    ELSE runStrategyCache(run, match, cfg, threshold, cache)

\* the run of configuration cfg at a threshold executed alone, in a process
\* that has run nothing before it: the run state and the Fibonacci cache
\* after the first n matches of the list
RECURSIVE ExecutedAlone(_, _, _)
ExecutedAlone(cfg, threshold, n) ==
  IF n = 0 THEN [run |-> InitRun, cache |-> <<1, 1>>]
  ELSE LET before == ExecutedAlone(cfg, threshold, n - 1)
           match == matches[n].match
       IN  [run |-> SweepStep(before.run, match, cfg, threshold, before.cache),
            cache |-> SweepStepCache(before.run, match, cfg, threshold, before.cache)]

\* the summary of the run executed alone over the whole list
SummaryAlone(cfg, threshold) ==
  LET run == ExecutedAlone(cfg, threshold, Len(matches)).run
  IN  IF simulator = "simulateStrategy"
        THEN simulateStrategySummary(run, cfg, threshold)
        ELSE runStrategySummary(run, cfg, threshold)

\* the summary fields of a row (the rows of runStrategy also carry the order)
SummaryFields(row) ==
  [strategy_group |-> row.strategy_group, hero_filter |-> row.hero_filter,
   odds_condition |-> row.odds_condition, delta_threshold |-> row.delta_threshold,
   bets |-> row.bets, wins |-> row.wins, win_pct |-> row.win_pct,
   final_bank |-> row.final_bank, max_drawdown |-> row.max_drawdown,
   max_stake |-> row.max_stake, max_step |-> row.max_step]

\* C21, in every state: the run in progress, after any number of earlier
\* runs of the sweep, is in the state the same run reaches when executed
\* alone, and every row collected is the summary of its run executed alone
C21_RunsState ==
  simulator \in SweepSimulators /\ replay = "file" =>
    /\ phase = "loop" => runs[1] = ExecutedAlone(config, thresholds[1], consumed).run
    /\ \A k \in DOMAIN rows :
         SummaryFields(rows[k]) =
           SummaryAlone(Generator[mainConfigIndex(k)], SweepThresholds[mainThresholdIndex(k)])

\* C21, in every step: the match list and the matrix are left as they are,
\* and the Fibonacci cache only grows, keeping the entries it has
C21_SharedStep ==
  replay = "file" =>
    /\ matches' = matches
    /\ matrix' = matrix
    /\ Len(fibCache') >= Len(fibCache)
    /\ \A k \in DOMAIN fibCache : fibCache'[k] = fibCache[k]

\* C21: the summary of one (configuration, threshold) run is the same
\* whether the run is executed alone or after any sequence of other runs of
\* the sweep: no state written by one run (the process-wide Fibonacci cache
\* included) changes the result of another, and the shared match list and
\* matrix are never modified by a run.
C21_RunsIndependent == []C21_RunsState /\ [][C21_SharedStep]_vars

\* a Fibonacci run started with a cache an earlier run had grown, lost two
\* bets and staked fib(2) on the third match
C21_Witness ==
  /\ simulator \in SweepSimulators
  /\ replay = "file"
  /\ IsFibonacci
  /\ Len(rows) >= 40
  /\ Len(fibCache) >= 3
  /\ consumed = 3
  /\ runs[1].last.kind = "bet"
  /\ runs[1].last.stepBefore = 2
  /\ runs[1].last.stake = QInt(2 * config.unit)

\* the entry of main's list is misconfigured
Misconfigured(c) == ~KnownStakeType(c) \/ ~KnownHeroFilter(c)

\* C22: a strategy configuration with an unknown staking policy or an
\* unknown hero-filter variant is rejected when that strategy is constructed,
\* before any match is processed, and the failure affects only that
\* strategy: every other (configuration, threshold) run of the batch still
\* produces its summary row.
C22_MisconfiguredRejected ==
  simulator \in SweepSimulators /\ replay = "file" =>
    /\ Misconfigured(config) => consumed = 0
    /\ phase # "crashed"
    /\ \A k \in DOMAIN rows : ~Misconfigured(Generator[mainConfigIndex(k)])
    /\ phase = "written" =>
         \A c \in DOMAIN Generator, t \in DOMAIN SweepThresholds :
           ~Misconfigured(Generator[c]) =>
             \E k \in DOMAIN rows : RowOf(rows[k], Generator[c], SweepThresholds[t])

\* C23: every input match record is either used (passed on to simulation or
\* aggregation) or increments exactly one named skip counter, so records used
\* + sum of skip counters = records read; no record is dropped without being
\* counted.  Here for the loop of run / execute / simulate, whose records
\* used are its bets and whose one skip counter is skipped.
C23_EveryRecordAccounted ==
  simulator \in DeltaPctSimulators =>
    \A i \in DOMAIN runs :
      runs[i].status # "aborted" => runs[i].bets + runs[i].skipped = consumed

\* the sum of matrix[h][o].advantage over the opposing heroes o with a
\* present cell
RECURSIVE AdvantageSum(_, _)
AdvantageSum(h, opponents) ==
  IF opponents = <<>> THEN 0
  ELSE (IF matrix.winRates[h][Head(opponents)].present
          THEN matrix.winRates[h][Head(opponents)].adv ELSE 0)
       + AdvantageSum(h, Tail(opponents))

PositiveCount(team, opponents) ==
  Cardinality({ k \in DOMAIN team : AdvantageSum(team[k], opponents) > 0 })

NegativeCount(team, opponents) ==
  Cardinality({ k \in DOMAIN team : AdvantageSum(team[k], opponents) < 0 })

\* C24: for every resolved 5v5 match, a team's positive count (resp. negative
\* count) is the number of its heroes h for which the sum of
\* matrix[h][o].advantage over the opposing heroes o with a present cell is
\* strictly positive (resp. strictly negative); the row index is the team's
\* own hero and the column index the opponent, absent cells contribute 0,
\* and a hero whose sum is 0 is counted in neither.
C24_CountsByOwnRow ==
  simulator \in TeamCounters =>
    \A k \in DOMAIN rows :
      /\ rows[k].team1Counts.pos = PositiveCount(rows[k].team1, rows[k].team2)
      /\ rows[k].team1Counts.neg = NegativeCount(rows[k].team1, rows[k].team2)
      /\ rows[k].team2Counts.pos = PositiveCount(rows[k].team2, rows[k].team1)
      /\ rows[k].team2Counts.neg = NegativeCount(rows[k].team2, rows[k].team1)

\* the run stakes 5% of its current bankroll
IsPercentOfBankroll == config.stake_type \in {"pct_bankroll", "bankroll_percent"}

\* C25, in every state: under the 5%-of-current-bankroll policy the bankroll
\* is above 0, the run is not Busted, and the bet just placed staked less
\* than the bankroll before it
C25_PositiveState ==
  simulator \in SweepSimulators /\ IsPercentOfBankroll =>
    \A i \in DOMAIN runs :
      /\ QLt(Zero, runs[i].bank)
      /\ runs[i].status = "running"
      /\ runs[i].last.kind = "bet" => QLt(runs[i].last.stake, runs[i].last.bankBefore)

\* C25, in every step: no iteration leaves the loop for an empty bankroll
C25_PositiveStep ==
  simulator \in SweepSimulators /\ IsPercentOfBankroll =>
    \A i \in DOMAIN runs : runs'[i].last.kind # "break"

C26_MaxStepIsLongestLossRun ==
  simulator \in SweepSimulators /\ IsFibonacci /\ phase = "done" =>
    \A i \in DOMAIN runs :
      \/ summaries[i].max_step = runs[i].maxLossRun
      \/ summaries[i].max_step = runs[i].maxLossRunBet

\* the matches an iteration of a sweep simulator can have been given
SweepPool ==
  IF simulator = "simulateStrategy"
    THEN (IF replay = "deep" THEN DeepHawkMatches ELSE HawkMatches)
  ELSE IF replay = "deep" THEN DeepParsedMatches
  ELSE IF replay = "streak" THEN StreakParsedMatches
  ELSE ParsedMatches

\* |delta| of a match of either sweep
AbsDeltaOf(m) == IF simulator = "simulateStrategy" THEN m.deltaAbs ELSE m.absDelta

\* the hero filter of the configuration fails on the match: the favored side
\* has too few heroes with a positive sum or the other side too few with a
\* negative sum
HeroFilterFails(m) ==
  LET need == IF config.hero_filter = "4+4-" THEN 4
              ELSE IF config.hero_filter = "5+5-" THEN 5 ELSE 0
  IN  IF simulator = "simulateStrategy"
        THEN \/ (IF m.deltaFavIsTeam1 THEN m.team1Pos ELSE m.team2Pos) < need
             \/ (IF m.deltaFavIsTeam1 THEN m.team2Neg ELSE m.team1Neg) < need
        ELSE \/ need = 4 /\ ~m.heroFilter4
             \/ need = 5 /\ ~m.heroFilter5

\* the odds condition of the configuration fails on the match
OddsConditionFails(m) ==
  IF simulator = "simulateStrategy"
    THEN \/ config.odds_condition = "favorite" /\ ~QLt(m.favOdds, m.dogOdds)
         \/ config.odds_condition = "underdog" /\ ~QLt(m.dogOdds, m.favOdds)
    ELSE \/ config.odds_condition = "favorite" /\ ~QLt(m.favoredOdds, m.opponentOdds)
         \/ config.odds_condition = "underdog" /\ ~QLt(m.opponentOdds, m.favoredOdds)

\* the run at thresholds[i] has a reason to skip the match
SkipReason(i, m) ==
  \/ QLt(AbsDeltaOf(m), QInt(thresholds[i]))
  \/ HeroFilterFails(m)
  \/ OddsConditionFails(m)

\* |delta| of the match is the threshold exactly, and neither the hero
\* filter nor the odds condition fails
AtThreshold(i, m) ==
  /\ AbsDeltaOf(m) = QInt(thresholds[i])
  /\ ~HeroFilterFails(m)
  /\ ~OddsConditionFails(m)

\* the iteration of run i on match m
SweepStepOn(i, m) == SweepStep(runs[i], m, config, thresholds[i], fibCache)

\* C27, in every step that gives a running sweep run a match: an iteration
\* that the loop left by `continue` changes none of bankroll, peak, max
\* drawdown, bets, wins, Fibonacci step, max stake and max step; whatever
\* match the step was taken on, a match with a reason to skip changes none
\* of them either, and a match at the threshold exactly is bet on when a
\* stake is left
C27_SkipStep ==
  \A i \in DOMAIN runs :
    /\ simulator \in SweepSimulators
    /\ consumed' = consumed + 1
    /\ runs[i].status = "running"
    /\ QLt(Zero, runs[i].bank)
    => /\ runs'[i].last.kind = "skip" => Frozen(runs'[i]) = Frozen(runs[i])
       /\ \/ Frozen(runs'[i]) = Frozen(runs[i])
          \/ \A m \in SweepPool : ~SkipReason(i, m) \/ runs'[i] # SweepStepOn(i, m)
       /\ \/ runs'[i].bets = runs[i].bets + 1
          \/ /\ runs'[i].last.kind = "skip"
             /\ config.stake_type = "bankroll_percent"
             /\ QRound(QMul(runs[i].bank, config.percent)) <= 0
          \/ \A m \in SweepPool : ~AtThreshold(i, m) \/ runs'[i] # SweepStepOn(i, m)

\* C27: a match that is skipped because |delta| < threshold, because the
\* hero filter fails, because the odds condition fails, or because the
\* clipped stake is <= 0 leaves the whole simulation state unchanged:
\* bankroll, peak, max drawdown, bets, wins, Fibonacci step, max stake and
\* max step all keep their values; a match with |delta| exactly equal to the
\* threshold is not skipped for the threshold reason.
C27_SkipLeavesStateUnchanged == [][C27_SkipStep]_vars

\* at threshold 10 a run has bet on a match of |delta| 10, won it, and then
\* skipped a match
C27_Witness ==
  /\ simulator \in SweepSimulators
  /\ thresholds = <<10>>
  /\ consumed = 2
  /\ runs[1].bets = 1
  /\ runs[1].wins = 1
  /\ runs[1].last.kind = "skip"
  /\ QLt(QInt(INITIAL_BANK), runs[1].bank)

\* the standard sequence: fib(0) = fib(1) = 1, fib(n) = fib(n-1) + fib(n-2)
RECURSIVE Fib(_)
Fib(n) == IF n <= 1 THEN 1 ELSE Fib(n - 1) + Fib(n - 2)

\* the raw stake of a bet placed under the configuration at a bankroll and
\* a Fibonacci step
RawStake(bank, step) ==
  LET policy == PolicyOf(config)
  IN  IF policy = "flat100" THEN QInt(100)
      ELSE IF policy = "pct5" THEN QMul(bank, Q(5, 100))
      ELSE IF policy = "flat5" THEN QInt((INITIAL_BANK * 5) \div 100)
      ELSE IF policy = "fib1" THEN QInt(Fib(step))
      ELSE QInt(Fib(step) * 5)

\* the raw stake clipped to the bankroll and the maximum bet (and rounded to
\* the nearest integer by runStrategy)
Clipped(raw, bank) ==
  LET least == QMin(QMin(raw, bank), QInt(MAX_BET))
  IN  IF simulator = "runStrategy" THEN QInt(QRound(least)) ELSE least

\* C28: the raw stake before clipping is: the configured constant for the
\* flat policy; current bankroll x percent for percent-of-current-bankroll; a
\* constant equal to 5% of the starting bankroll, which does not change when
\* the bankroll changes, for fixed-percent-of-starting; and fib(step) x unit
\* for Fibonacci, where fib(0)=fib(1)=1 and fib(n)=fib(n-1)+fib(n-2).  Every
\* bet placed stakes that raw stake, clipped.
C28_RawStakeByPolicy ==
  simulator \in SweepSimulators =>
    \A i \in DOMAIN runs :
      runs[i].last.kind = "bet" =>
        runs[i].last.stake =
          Clipped(RawStake(runs[i].last.bankBefore, runs[i].last.stepBefore),
                  runs[i].last.bankBefore)

\* under fixed 5% of the starting bankroll a bet of 50 was placed at a
\* bankroll that was no longer the starting one
C28_Witness ==
  /\ simulator \in SweepSimulators
  /\ PolicyOf(config) = "flat5"
  /\ \E i \in DOMAIN runs :
       /\ runs[i].last.kind = "bet"
       /\ runs[i].last.bankBefore # QInt(INITIAL_BANK)
       /\ runs[i].last.stake = QInt(50)
       /\ runs[i].bets = 3

\* a step in which run i placed a bet updated its peak and max drawdown by
\* the two maxima
PeakDrawdownStep ==
  \A i \in DOMAIN runs :
    (i \in DOMAIN runs' /\ runs'[i].bets = runs[i].bets + 1) =>
      /\ runs'[i].peak = QMax(runs[i].peak, runs'[i].bank)
      /\ runs'[i].maxDrawdown =
           QMax(runs[i].maxDrawdown, QSub(runs'[i].peak, runs'[i].bank))

\* every run's peak and max drawdown follow the two maxima after every
\* placed bet, in the three simulators
PeakDrawdownRecurrence == [][PeakDrawdownStep]_vars

\* the max_drawdown a finished run reports is the max drawdown the run
\* reached
ReportedDrawdown ==
  phase = "done" =>
    \A i \in DOMAIN summaries :
      QInt(summaries[i].max_drawdown) = runs[i].maxDrawdown

\* C29: after every placed bet peak = max(previous peak, bankroll) and
\* maxDrawdown = max(previous maxDrawdown, peak - bankroll); hence at the
\* end of a run max_drawdown equals the largest value, over all points after
\* a placed bet, of (highest bankroll seen so far, including the starting
\* bankroll) minus (bankroll at that point).
C29_DrawdownIsLargestGap ==
  []ReportedDrawdown /\ [][PeakDrawdownStep]_vars

\* the loop has consumed no more matches than the corpus holds, no run has
\* ended by an exception, and once the simulator has returned every run has
\* its summary; a run that left the loop early did so at bankroll 0
TerminalStates ==
  /\ consumed <= CorpusBound
  /\ phase # "crashed"
  /\ \A i \in DOMAIN runs :
       /\ runs[i].status \in {"running", "busted"}
       /\ runs[i].status = "busted" => QLe(runs[i].bank, Zero)
  /\ phase = "done" => DOMAIN summaries = DOMAIN runs

\* an iteration consumes one match, and no step goes back in the corpus
ConsumesOnce == consumed' = consumed \/ consumed' = consumed + 1

\* C30: every run terminates after evaluating each match of the corpus at
\* most once, in exactly one of two terminal states: Busted if its bankroll
\* has reached 0, otherwise Completed when the corpus is exhausted; both
\* produce a summary.
C30_TerminatesWithSummary ==
  /\ []TerminalStates
  /\ [][ConsumesOnce]_vars
  /\ <>(phase = "done")

\* heroes with keys a and b were on opposite sides of the raw match
Opposed(match, a, b) ==
  LET R == SideKeys(match.radiant)
      D == SideKeys(match.dire)
  IN  \/ Occurrences(R, a) > 0 /\ Occurrences(D, b) > 0
      \/ Occurrences(R, b) > 0 /\ Occurrences(D, a) > 0

\* the matches the builder took into the matrix in which a and b were on
\* opposite sides, each counted as often as it was ingested
GamesOpposed(a, b) ==
  LET met == { m \in MatrixRecords : Aggregated(m) /\ Opposed(m, a, b) }
  IN  SumOver([m \in met |-> ingested[m]], met)

GlobalWinRate(h) ==
  IF matrix.heroStats[h].games > 0
    THEN toFixed2(Q(matrix.heroStats[h].wins * 100, matrix.heroStats[h].games))
    ELSE QInt(50)

\* the score of a team: every hero's global win rate plus its advantage
RECURSIVE TeamScore(_, _)
TeamScore(team, opponents) ==
  IF team = <<>> THEN Zero
  ELSE QAdd(QAdd(GlobalWinRate(Head(team)), QInt(AdvantageSum(Head(team), opponents))),
            TeamScore(Tail(team), opponents))

\* the scores the scorer gave the two teams of a row
ScoresOf(row) ==
  IF simulator = "calcTeamStats" THEN <<row.team1Counts.score, row.team2Counts.score>>
  ELSE <<row.score1, row.score2>>

\* C32: the global win rate used for a hero is wins/games x 100 whenever the
\* hero has at least one recorded game (including a genuine 0 when the hero
\* never won), and is the sentinel 50 only when the hero has zero recorded
\* games; the scorer adds exactly that value to the hero's advantage, so the
\* score of a team is the sum of those values over its heroes.
C32_GlobalWinRateUsed ==
  simulator \in TeamScorers =>
    \A k \in DOMAIN rows :
      /\ ScoresOf(rows[k])[1] = TeamScore(rows[k].team1, rows[k].team2)
      /\ ScoresOf(rows[k])[2] = TeamScore(rows[k].team2, rows[k].team1)

\* the win rate of a pair cell, wins / games x 100, and its advantage, the
\* win rate minus 50
PairWinRate(a, b) ==
  Q(matrix.pairStats[a][b].wins * 100, matrix.pairStats[a][b].games)

PairAdvantage(a, b) == QSub(PairWinRate(a, b), QInt(50))

\* C33: after any sequence of ingested matches, for every pair of heroes
\* (i, j) with recorded games, wins[i][j] + wins[j][i] = games[i][j] and
\* 0 <= wins[i][j] <= games[i][j], so the win rates of the two directions
\* sum to 100 and the two advantages are opposite.
C33_PairWinsComplementary ==
  simulator \in MatrixBuilders =>
    \A a \in HeroKeys, b \in HeroKeys :
      matrix.pairStats[a][b].games > 0 =>
        /\ matrix.pairStats[a][b].wins + matrix.pairStats[b][a].wins
             = matrix.pairStats[a][b].games
        /\ 0 <= matrix.pairStats[a][b].wins
        /\ matrix.pairStats[a][b].wins <= matrix.pairStats[a][b].games
        /\ matrix.pairStats[b][a].games > 0
        /\ QAdd(PairWinRate(a, b), PairWinRate(b, a)) = QInt(100)
        /\ PairAdvantage(a, b) = QSub(Zero, PairAdvantage(b, a))

\* after three matches a pair has met three times, one hero winning twice
\* and the other once: their win rates are 200/3 and 100/3
C33_Witness ==
  /\ simulator \in MatrixBuilders
  /\ consumed = 3
  /\ \E a \in HeroKeys, b \in HeroKeys :
       /\ matrix.pairStats[a][b].games = 3
       /\ matrix.pairStats[a][b].wins = 2
       /\ matrix.pairStats[b][a].wins = 1
       /\ PairWinRate(a, b) = Q(200, 3)
       /\ PairAdvantage(b, a) = Q(0 - 50, 3)

\* the matches processed and skipped so far: the counters of buildMatrix;
\* processMatch keeps no counters, and the matches it aggregated and the
\* matches it returned from at once are counted for it
Processed ==
  IF simulator = "buildMatrix" THEN matrix.processed
  ELSE LET counted == { m \in MatrixRecords : Aggregated(m) }
       IN  SumOver([m \in counted |-> ingested[m]], counted)

Skipped ==
  IF simulator = "buildMatrix" THEN matrix.skipped
  ELSE LET dropped == { m \in MatrixRecords : ~Aggregated(m) }
       IN  SumOver([m \in dropped |-> ingested[m]], dropped)

\* C34: after the matrix builder has processed any corpus, processed +
\* skipped equals the number of input matches, the per-hero game counts sum
\* to 10 x processed and the per-hero wins to 5 x processed, and for every
\* hero i the sum over j of games[i][j] equals 5 x (games of hero i).
C34_BuilderTotals ==
  simulator \in MatrixBuilders =>
    /\ Processed + Skipped = consumed
    /\ SumOver([h \in HeroKeys |-> matrix.heroStats[h].games], HeroKeys) = 10 * Processed
    /\ SumOver([h \in HeroKeys |-> matrix.heroStats[h].wins], HeroKeys) = 5 * Processed
    /\ \A i \in HeroKeys :
         SumOver([j \in HeroKeys |-> matrix.pairStats[i][j].games], HeroKeys)
           = 5 * matrix.heroStats[i].games

\* the stakes and the payouts of the first n rows of a ledger
RECURSIVE LedgerStakes(_, _)
LedgerStakes(ledger, n) ==
  IF n = 0 THEN Zero ELSE QAdd(LedgerStakes(ledger, n - 1), ledger[n].stake)

RECURSIVE LedgerPayouts(_, _)
LedgerPayouts(ledger, n) ==
  IF n = 0 THEN Zero ELSE QAdd(LedgerPayouts(ledger, n - 1), ledger[n].payout)

\* the ledger of run i is consistent with the run
LedgerConsistent(i) ==
  LET ledger == runs[i].betRecords
  IN  /\ Len(ledger) = runs[i].bets
      /\ \A k \in DOMAIN ledger :
           /\ ledger[k].bank_after
                = QAdd(QSub(ledger[k].bank_before, ledger[k].stake), ledger[k].payout)
           /\ ledger[k].outcome = "loss" => ledger[k].payout = Zero
           /\ ledger[k].bank_before
                = IF k = 1 THEN QInt(INITIAL_BANK) ELSE ledger[k - 1].bank_after
      /\ runs[i].bank
           = QAdd(QSub(QInt(INITIAL_BANK), LedgerStakes(ledger, Len(ledger))),
                  LedgerPayouts(ledger, Len(ledger)))
      /\ phase = "done" => QInt(summaries[i].final_bank) = runs[i].bank

\* C35: in the delta-percentage simulators the bet ledger is consistent with
\* the run: it has exactly one row per placed bet, every row satisfies
\* bank_after = bank_before - stake + payout with payout = 0 on a loss, the
\* bank_before of each row equals the bank_after of the previous row (the
\* starting bankroll for the first), and the final bankroll equals the
\* starting bankroll minus all stakes plus all payouts.
C35_LedgerConsistent ==
  KeepsBetRecords(simulator) => \A i \in DOMAIN runs : LedgerConsistent(i)

\* a finished run whose ledger has three rows, a win and a loss among them
C35_Witness ==
  /\ KeepsBetRecords(simulator)
  /\ phase = "done"
  /\ \E i \in DOMAIN runs :
       /\ Len(runs[i].betRecords) = 3
       /\ \E j \in 1..3, k \in 1..3 :
            /\ runs[i].betRecords[j].outcome = "win"
            /\ QLt(Zero, runs[i].betRecords[j].payout)
            /\ runs[i].betRecords[k].outcome = "loss"
       /\ runs[i].bank # QInt(INITIAL_BANK)
       /\ runs[i].betRecords[3].bank_before # QInt(INITIAL_BANK)

\* the losing bets of run i: the losses counter of the delta-percentage
\* simulators; the sweeps keep no such counter, their losing bets are the
\* bets that were not won
Losses(i) ==
  IF simulator \in DeltaPctSimulators THEN runs[i].losses
  ELSE runs[i].bets - runs[i].wins

\* the relations between the counters of run i
CountersInRange(i) ==
  /\ runs[i].wins <= runs[i].bets
  /\ runs[i].wins + Losses(i) = runs[i].bets
  /\ runs[i].bets <= consumed
  /\ QLe(runs[i].bank, runs[i].peak)
  /\ QLe(QInt(INITIAL_BANK), runs[i].peak)
  /\ QLe(runs[i].maxDrawdown, runs[i].peak)
  /\ QLe(runs[i].maxStake, runs[i].peak)

\* no step decreases bets, wins, peak, max drawdown, max stake or max step
CountersMonotone ==
  \A i \in DOMAIN runs :
    /\ runs'[i].bets >= runs[i].bets
    /\ runs'[i].wins >= runs[i].wins
    /\ QLe(runs[i].peak, runs'[i].peak)
    /\ QLe(runs[i].maxDrawdown, runs'[i].maxDrawdown)
    /\ QLe(runs[i].maxStake, runs'[i].maxStake)
    /\ runs'[i].maxStepReached >= runs[i].maxStepReached

C36_State ==
  simulator \in SweepSimulators \cup DeltaPctSimulators =>
    \A i \in DOMAIN runs : CountersInRange(i)

\* C36: at every point of every run, wins <= bets, wins + losses = bets,
\* bets <= number of matches evaluated so far, peak >= bankroll, peak >=
\* starting bankroll, max drawdown <= peak, max stake <= peak, and bets,
\* wins, peak, max drawdown, max stake and max step never decrease.
C36_CountersConsistent == []C36_State /\ [][CountersMonotone]_vars

\* a Fibonacci run after a loss and a win that took the bankroll above its
\* start: the peak has moved, a drawdown and a step above 0 were recorded
C36_Witness ==
  /\ simulator \in SweepSimulators
  /\ config.stake_type = "fibonacci"
  /\ \E i \in DOMAIN runs :
       /\ runs[i].bets >= 4
       /\ runs[i].wins >= 1
       /\ runs[i].wins < runs[i].bets
       /\ QLt(QInt(INITIAL_BANK), runs[i].peak)
       /\ QLt(runs[i].bank, runs[i].peak)
       /\ QLt(Zero, runs[i].maxDrawdown)
       /\ runs[i].maxStepReached >= 2

\* the losing bet that staked the whole bankroll
LosingAllIn(bet) ==
  /\ bet.kind = "bet"
  /\ ~bet.won
  /\ bet.stake = bet.bankBefore

\* what a step does to the bankroll of run i
BankrollStep(i) ==
  LET placed == runs'[i].bets = runs[i].bets + 1
      bet == runs'[i].last
  IN  /\ placed /\ bet.won => QLe(runs[i].bank, runs'[i].bank)
      /\ placed /\ ~bet.won => runs'[i].bank = QSub(runs[i].bank, bet.stake)
      /\ ~placed => runs'[i].bank = runs[i].bank
      /\ QLt(Zero, runs[i].bank) /\ QLe(runs'[i].bank, Zero) =>
           /\ placed
           /\ LosingAllIn(bet)
           /\ bet.bankBefore = runs[i].bank
      /\ runs[i].status # "busted" /\ runs'[i].status = "busted" =>
           /\ runs'[i].bank = Zero
           /\ \/ placed /\ LosingAllIn(bet)
              \/ ~placed /\ runs[i].bank = Zero /\ LosingAllIn(runs[i].last)

C37_Step ==
  simulator \in SweepSimulators \cup DeltaPctSimulators =>
    \A i \in DOMAIN runs : BankrollStep(i)

\* C37: a winning bet never decreases the bankroll and a losing bet decreases
\* it by exactly the stake; consequently a run can become Busted only
\* immediately after a losing bet whose stake equalled the entire bankroll
\* before the bet.
C37_BustOnlyByLosingAllIn == [][C37_Step]_vars

\* a run has just lost a bet that staked all it had left, after a win
C37_Witness ==
  \E i \in DOMAIN runs :
    /\ runs[i].bank = Zero
    /\ runs[i].wins >= 1
    /\ LosingAllIn(runs[i].last)
    /\ QLt(Zero, runs[i].last.stake)

\* the thresholds, hero filters and odds conditions eligibility is compared
\* under
NestedThresholds == {0, 5, 7, 10, 15}

FilterNeeds == [f \in {"4+4-", "5+5-"} |-> IF f = "4+4-" THEN 4 ELSE 5]

\* a configuration with the given hero filter and odds condition
Filtered(f, o) == Combo("Flat100", "flat", QInt(100), Zero, 0, f, o)

\* the hero filters a configuration can carry
NestedFilters == {"none", "4+4-", "5+5-"}

\* simulateStrategy's test of one match under every threshold, hero filter
\* and odds condition
HawkEligibility(match) ==
  [t \in NestedThresholds |->
    [f \in NestedFilters |->
      [o \in OddsConditionSet |-> simulateStrategyEligible(match, Filtered(f, o), t)]]]

\* runStrategy's test, likewise
ParsedEligibility(match) ==
  [t \in NestedThresholds |->
    [f \in NestedFilters |->
      [o \in OddsConditionSet |-> shouldBet(match, Filtered(f, o), t)]]]

\* the lines loadMatches keeps, each with the counts of the delta-favored
\* team and of its opponent and the eligibility of the match pushed
HawkEligibilityInputs ==
  { [favPos |-> IF l.team1 = l.deltaFavTeam THEN l.counts.t1.pos ELSE l.counts.t2.pos,
     oppNeg |-> IF l.team1 = l.deltaFavTeam THEN l.counts.t2.neg ELSE l.counts.t1.neg,
     eligible |-> HawkEligibility(loadMatchesPush(l))]
    : l \in { x \in HawkLines : loadMatchesSkip(x) = "" } }

\* the rows parseMatches keeps, likewise
ParsedEligibilityInputs ==
  { [favPos |-> IF QLe(r.team2Stats.score, r.team1Stats.score)
                  THEN r.team1Stats.pos ELSE r.team2Stats.pos,
     oppNeg |-> IF QLe(r.team2Stats.score, r.team1Stats.score)
                  THEN r.team2Stats.neg ELSE r.team1Stats.neg,
     eligible |-> ParsedEligibility(parseMatchesPush(r))]
    : r \in { x \in ParseRows : parseMatchesSkip(x) = "" } }

\* eligibility is nested over the inputs of a sweep
Nested(inputs) ==
  \A e \in inputs, t \in NestedThresholds :
    /\ \A o \in OddsConditionSet :
         /\ \A f \in DOMAIN FilterNeeds :
              e.eligible[t][f][o] <=> /\ e.eligible[t]["none"][o]
                                      /\ e.favPos >= FilterNeeds[f]
                                      /\ e.oppNeg >= FilterNeeds[f]
         /\ e.eligible[t]["5+5-"][o] => e.eligible[t]["4+4-"][o]
         /\ e.eligible[t]["4+4-"][o] => e.eligible[t]["none"][o]
    /\ \A f \in NestedFilters :
         /\ ~(e.eligible[t][f]["favorite"] /\ e.eligible[t][f]["underdog"])
         /\ e.eligible[t][f]["favorite"] => e.eligible[t][f]["any"]
         /\ e.eligible[t][f]["underdog"] => e.eligible[t][f]["any"]
         /\ \A o \in OddsConditionSet, t1 \in NestedThresholds :
              t1 < t /\ e.eligible[t][f][o] => e.eligible[t1][f][o]

HawkNested == Nested(HawkEligibilityInputs)

ParsedNested == Nested(ParsedEligibilityInputs)

LosingBets(i) == runs[i].bets - runs[i].wins

\* the losing bets placed ahead of the last bet of a run
LosingBetsEarlier(i) ==
  LosingBets(i) - (IF runs[i].last.won THEN 0 ELSE 1)

\* the step of a sweep's run against its losing bets
StepWithinLosses(i) ==
  IF config.stake_type = "fibonacci"
    THEN /\ runs[i].last.kind = "bet" => runs[i].last.stepBefore <= LosingBetsEarlier(i)
         /\ runs[i].fibStep >= 0
         /\ runs[i].fibStep <= LosingBets(i)
         /\ runs[i].maxStepReached <= LosingBets(i)
         /\ runs[i].last.kind = "bet" => runs[i].last.stepBefore <= runs[i].maxStepReached
    ELSE /\ runs[i].fibStep = 0
         /\ runs[i].last.stepBefore = 0

\* the max_step a sweep reports
ReportedMaxStep(i) ==
  IF config.stake_type = "fibonacci"
    THEN /\ summaries[i].max_step = runs[i].maxStepReached
         /\ summaries[i].max_step <= summaries[i].bets - summaries[i].wins
    ELSE summaries[i].max_step = 0

\* C39: in a Fibonacci run the step before any bet is at most the number of
\* losing bets placed earlier in that run, so max_step <= bets - wins; for a
\* non-Fibonacci run the step stays 0 and the reported max_step is 0.
C39_StepWithinLosses ==
  simulator \in SweepSimulators =>
    \A i \in DOMAIN runs :
      /\ StepWithinLosses(i)
      /\ phase = "done" => ReportedMaxStep(i)

\* a Fibonacci sweep reported a max_step of at least 2 that a winning bet
\* keeps below the number of its losing bets
C39_Witness ==
  /\ simulator \in SweepSimulators
  /\ config.stake_type = "fibonacci"
  /\ phase = "done"
  /\ \E i \in DOMAIN runs :
       /\ summaries[i].max_step >= 2
       /\ summaries[i].wins >= 1
       /\ summaries[i].max_step < summaries[i].bets - summaries[i].wins

====
